---- MODULE Spec2Model ----
(***************************************************************************)
(* Model of the OAuth developer-app registry of lapse                      *)
(* (apps/web/src/server/routers/api/developer.ts) and of the tRPC          *)
(* procedure middleware (server/trpc.ts, concatenated in the same file).   *)
(*                                                                         *)
(* The store (clients, grants) is the only shared state.  A handler that   *)
(* awaits two store calls is two actions: X_find is the findFirst with the *)
(* synchronous code that follows it (validation reads only the row that    *)
(* was found and the request input), X_write is the store update with the  *)
(* return that follows it.  Between the two, other handlers may run.       *)
(***************************************************************************)
EXTENDS Integers, Sequences, FiniteSets, TLC

\* ------------------------------------------------------------------ bounds
MaxClients == 1
MaxCalls == 2
MaxSecrets == 3
MaxGrants == 1
MaxTime == 2
MaxComments == 2

\* ------------------------------------------------------------------ values
Users == {"u1", "u2"}
\* The users who register apps; the other users call the handlers as non-owners.
Owners == {"u1"}

\* null / undefined, and a present value
Null == <<>>
Some(x) == <<x>>

\* A parsed absolute URL (what `new URL(s)` yields for a string z.url() accepted).
Url(scheme, host, port, path) ==
    [scheme |-> scheme, hostname |-> host, port |-> port, path |-> path]

HomeA == Url("https", "app.example.com", "", "/")
HomeB == Url("https", "evil.com", "", "/")
CbA == Url("https", "app.example.com", "", "/cb")
CbB == Url("https", "evil.com", "", "/cb")

\* Mutant of hostname: `new URL(uri).host`, the hostname with the port.
hostname_withPort(uri) == <<uri.hostname, uri.port>>

\* `new URL(uri).hostname`
hostname(uri) == uri.hostname

\* The scope catalog.
getAllOAuthScopes ==
    { "timelapse:read", "timelapse:write", "user:read", "user:write",
      "snapshot:read", "snapshot:write", "comment:read", "comment:write",
      "global:read" }

\* String.prototype.trim on the strings the model uses.
trim(s) ==
    CASE s = " user:read " -> "user:read"
      [] s = " root " -> "root"
      [] s = " " -> ""
      [] OTHER -> s

\* Keeps the first occurrence of every element, in order.
RECURSIVE dedupe(_)
dedupe(s) ==
    IF s = <<>> THEN <<>>
    ELSE LET front == dedupe(SubSeq(s, 1, Len(s) - 1))
             last == s[Len(s)]
         IN IF \E i \in 1..Len(front) : front[i] = last
            THEN front ELSE Append(front, last)

\* serviceClientService.normalizeScopes: trim, drop empty, dedupe (first-seen order).
normalizeScopes(scopes) ==
    dedupe(SelectSeq([i \in 1..Len(scopes) |-> trim(scopes[i])], LAMBDA s : s # ""))

\* serviceClientService.normalizeRedirectUris: dedupe (first-seen order).
normalizeRedirectUris(uris) == dedupe(uris)

\* Mutant of invalidScopes: the catalog check finds nothing.
invalidScopes_unchecked(requestedScopes) == <<>>

\* Mutant of invalidScopes: the check stops at the first unknown scope (`find`).
invalidScopes_firstOnly(requestedScopes) ==
    LET unknown == SelectSeq(requestedScopes, LAMBDA s : s \notin getAllOAuthScopes)
    IN IF unknown = <<>> THEN <<>> ELSE <<unknown[1]>>

\* requestedScopes.filter(scope => !validScopes.has(scope))
invalidScopes(requestedScopes) ==
    SelectSeq(requestedScopes, LAMBDA s : s \notin getAllOAuthScopes)

\* redirectUris.filter(uri => new URL(uri).hostname !== homepageHost)
mismatchedRedirects(homepageUrl, redirectUris) ==
    LET homepageHost == hostname(homepageUrl)
    IN SelectSeq(redirectUris, LAMBDA uri : hostname(uri) # homepageHost)

\* The verifier stored for a secret, and its check.
hashSecret(secret) == <<"hash", secret>>
verifySecret(secret, verifier) == hashSecret(secret) = verifier

\* ------------------------------------------------------------------- state
VARIABLES
    clients,    \* the serviceClient table: a sequence of rows, id = index
    grants,     \* the serviceGrant table: a sequence of rows, id = index
    calls,      \* per call slot: the handler waiting between two store calls
    issued,     \* how many client secrets have been generated
    now,        \* the clock read by `new Date()`
    response,   \* what the step just taken returned to its caller
    request,    \* the request the tRPC middleware handled in the step just taken
    comments    \* the comment table: per id ever given, the row, or Null once deleted

vars == <<clients, grants, calls, issued, now, response, request, comments>>

Slots == 1..MaxCalls
ClientIds == 1..(MaxClients + 1)     \* one id more than the table can hold
Idle == [op |-> "idle"]
NoResponse == [op |-> "none", caller |-> "", id |-> 0, ok |-> TRUE,
               error |-> "", message |-> "", data |-> Null]
NoRequest == [kind |-> "none"]

\* apiOk / apiErr
apiOk(op, caller, id, data) ==
    [op |-> op, caller |-> caller, id |-> id, ok |-> TRUE,
     error |-> "", message |-> "", data |-> data]
apiErr(op, caller, id, error, message) ==
    [op |-> op, caller |-> caller, id |-> id, ok |-> FALSE,
     error |-> error, message |-> message, data |-> Null]

Init ==
    /\ clients = <<>>
    /\ grants = <<>>
    /\ calls = [p \in Slots |-> Idle]
    /\ issued = 0
    /\ now = 1
    /\ response = NoResponse
    /\ request = NoRequest
    /\ comments = <<>>

\* A new call takes the lowest free slot.
FreeSlot(p) ==
    /\ calls[p] = Idle
    /\ \A q \in Slots : q < p => calls[q] # Idle

\* Mutant of findOwnedActive: the filter lacks `createdByUserId`.
findOwnedActive_anyOwner(id, userId) ==
    IF /\ id \in 1..Len(clients)
       /\ clients[id].revokedAt = Null
    THEN Some(id) ELSE Null

\* Mutant of findOwnedActive: the filter lacks `revokedAt: null`.
findOwnedActive_anyState(id, userId) ==
    IF /\ id \in 1..Len(clients)
       /\ clients[id].createdByUserId = userId
    THEN Some(id) ELSE Null

\* database.serviceClient.findFirst({ where: { id, createdByUserId, revokedAt: null } })
findOwnedActive(id, userId) ==
    IF /\ id \in 1..Len(clients)
       /\ clients[id].createdByUserId = userId
       /\ clients[id].revokedAt = Null
    THEN Some(id) ELSE Null

\* ---------------------------------------------------------------- createApp
\* serviceClientService.createServiceClient: the row it inserts.
createServiceClient(fields, secret) ==
    [ createdByUserId |-> fields.createdByUserId,
      name |-> fields.name,
      homepageUrl |-> fields.homepageUrl,
      redirectUris |-> fields.redirectUris,
      scopes |-> fields.scopes,
      trustLevel |-> "UNTRUSTED",
      secretHash |-> hashSecret(secret),
      revokedAt |-> Null ]

createApp(caller, input) ==
    LET requestedScopes == normalizeScopes(input.scopes)
        invalid == invalidScopes(requestedScopes)
        redirectUris == normalizeRedirectUris(input.redirectUris)
        mismatched == mismatchedRedirects(input.homepageUrl, redirectUris)
        secret == issued + 1
        id == Len(clients) + 1
    IN /\ UNCHANGED <<grants, calls, now, request, comments>>
       /\ IF Len(invalid) > 0
          THEN /\ response' = apiErr("createApp", caller, 0, "ERROR", <<"Unknown scopes", invalid>>)
               /\ UNCHANGED <<clients, issued>>
          ELSE IF Len(mismatched) > 0
          THEN /\ response' = apiErr("createApp", caller, 0, "ERROR",
                                     <<"Redirect URIs must match the homepage domain.">>)
               /\ UNCHANGED <<clients, issued>>
          ELSE /\ Len(clients) < MaxClients
               /\ issued < MaxSecrets
               /\ clients' = Append(clients,
                      createServiceClient(
                          [ name |-> input.name, homepageUrl |-> input.homepageUrl,
                            redirectUris |-> redirectUris, scopes |-> requestedScopes,
                            createdByUserId |-> caller ], secret))
               /\ issued' = secret
               /\ response' = apiOk("createApp", caller, id, Some(secret))

\* Mutant of dtoOAuthApp: the row is copied whole (`...entity`) before the named fields.
dtoOAuthApp_spread(id, entity) ==
    [ id |-> id, name |-> entity.name, homepageUrl |-> entity.homepageUrl,
      redirectUris |-> entity.redirectUris, scopes |-> entity.scopes,
      trustLevel |-> entity.trustLevel, createdBy |-> entity.createdByUserId,
      createdByUserId |-> entity.createdByUserId, revokedAt |-> entity.revokedAt,
      secretHash |-> entity.secretHash ]

\* dtoOAuthApp: the fields of a row that a response carries.
dtoOAuthApp(id, entity) ==
    [ id |-> id, name |-> entity.name, homepageUrl |-> entity.homepageUrl,
      redirectUris |-> entity.redirectUris, scopes |-> entity.scopes,
      trustLevel |-> entity.trustLevel, createdBy |-> entity.createdByUserId ]

\* ---------------------------------------------------------------- updateApp
\* Mutant of updateData: an omitted list is taken as the empty list (`?? []`).
updateData_defaults(input, normalizedScopes) ==
    [ name |-> input.name,
      homepageUrl |-> input.homepageUrl,
      redirectUris |-> IF input.redirectUris = Null THEN Some(<<>>)
                       ELSE Some(normalizeRedirectUris(input.redirectUris[1])),
      scopes |-> IF normalizedScopes = Null THEN Some(<<>>) ELSE normalizedScopes ]

\* The `data` of the update: an omitted field is undefined and is not written.
updateData(input, normalizedScopes) ==
    [ name |-> input.name,
      homepageUrl |-> input.homepageUrl,
      redirectUris |-> IF input.redirectUris = Null THEN Null
                       ELSE Some(normalizeRedirectUris(input.redirectUris[1])),
      scopes |-> normalizedScopes ]

\* Mutant of updateApp_find: the scopes are written as soon as they are validated,
\* before the redirect check.
updateApp_find_scopesFirst(p, caller, id, input) ==
    LET app == findOwnedActive(id, caller)
        requestedScopes == normalizeScopes(input.scopes[1])
        invalid == invalidScopes(requestedScopes)
        normalizedScopes == IF input.scopes = Null THEN Null ELSE Some(requestedScopes)
        homepageUrl == IF input.homepageUrl # Null THEN input.homepageUrl[1]
                       ELSE clients[id].homepageUrl
        redirectUris == IF input.redirectUris # Null THEN input.redirectUris[1]
                        ELSE clients[id].redirectUris
    IN /\ FreeSlot(p)
       /\ UNCHANGED <<grants, issued, now, request, comments>>
       /\ IF app = Null
          THEN /\ response' = apiErr("updateApp", caller, id, "NOT_FOUND", <<"App not found">>)
               /\ UNCHANGED <<clients, calls>>
          ELSE IF input.scopes # Null /\ Len(invalid) > 0
          THEN /\ response' = apiErr("updateApp", caller, id, "ERROR", <<"Unknown scopes", invalid>>)
               /\ UNCHANGED <<clients, calls>>
          ELSE IF /\ (input.homepageUrl # Null \/ input.redirectUris # Null)
                  /\ Len(mismatchedRedirects(homepageUrl, redirectUris)) > 0
          THEN /\ response' = apiErr("updateApp", caller, id, "ERROR",
                                     <<"Redirect URIs must match the homepage domain.">>)
               /\ clients' = [clients EXCEPT ![id].scopes =
                                  IF normalizedScopes = Null THEN @ ELSE normalizedScopes[1]]
               /\ UNCHANGED calls
          ELSE /\ calls' = [calls EXCEPT ![p] =
                      [ op |-> "updateApp", caller |-> caller, id |-> id,
                        data |-> updateData(input, normalizedScopes) ]]
               /\ response' = NoResponse
               /\ UNCHANGED clients

\* Mutant of updateApp_find: the redirect URIs are checked against the stored
\* homepageUrl, also when the input brings a new one.
updateApp_find_storedHomepage(p, caller, id, input) ==
    LET app == findOwnedActive(id, caller)
        requestedScopes == normalizeScopes(input.scopes[1])
        invalid == invalidScopes(requestedScopes)
        normalizedScopes == IF input.scopes = Null THEN Null ELSE Some(requestedScopes)
        homepageUrl == clients[id].homepageUrl
        redirectUris == IF input.redirectUris # Null THEN input.redirectUris[1]
                        ELSE clients[id].redirectUris
    IN /\ FreeSlot(p)
       /\ UNCHANGED <<clients, grants, issued, now, request, comments>>
       /\ IF app = Null
          THEN /\ response' = apiErr("updateApp", caller, id, "NOT_FOUND", <<"App not found">>)
               /\ UNCHANGED calls
          ELSE IF input.scopes # Null /\ Len(invalid) > 0
          THEN /\ response' = apiErr("updateApp", caller, id, "ERROR", <<"Unknown scopes", invalid>>)
               /\ UNCHANGED calls
          ELSE IF /\ (input.homepageUrl # Null \/ input.redirectUris # Null)
                  /\ Len(mismatchedRedirects(homepageUrl, redirectUris)) > 0
          THEN /\ response' = apiErr("updateApp", caller, id, "ERROR",
                                     <<"Redirect URIs must match the homepage domain.">>)
               /\ UNCHANGED calls
          ELSE /\ calls' = [calls EXCEPT ![p] =
                      [ op |-> "updateApp", caller |-> caller, id |-> id,
                        data |-> updateData(input, normalizedScopes) ]]
               /\ response' = NoResponse

\* findFirst, then the scope and redirect checks on the row that was read.
updateApp_find(p, caller, id, input) ==
    LET app == findOwnedActive(id, caller)
        requestedScopes == normalizeScopes(input.scopes[1])
        invalid == invalidScopes(requestedScopes)
        normalizedScopes == IF input.scopes = Null THEN Null ELSE Some(requestedScopes)
        homepageUrl == IF input.homepageUrl # Null THEN input.homepageUrl[1]
                       ELSE clients[id].homepageUrl
        redirectUris == IF input.redirectUris # Null THEN input.redirectUris[1]
                        ELSE clients[id].redirectUris
    IN /\ FreeSlot(p)
       /\ UNCHANGED <<clients, grants, issued, now, request, comments>>
       /\ IF app = Null
          THEN /\ response' = apiErr("updateApp", caller, id, "NOT_FOUND", <<"App not found">>)
               /\ UNCHANGED calls
          ELSE IF input.scopes # Null /\ Len(invalid) > 0
          THEN /\ response' = apiErr("updateApp", caller, id, "ERROR", <<"Unknown scopes", invalid>>)
               /\ UNCHANGED calls
          ELSE IF /\ (input.homepageUrl # Null \/ input.redirectUris # Null)
                  /\ Len(mismatchedRedirects(homepageUrl, redirectUris)) > 0
          THEN /\ response' = apiErr("updateApp", caller, id, "ERROR",
                                     <<"Redirect URIs must match the homepage domain.">>)
               /\ UNCHANGED calls
          ELSE /\ calls' = [calls EXCEPT ![p] =
                      [ op |-> "updateApp", caller |-> caller, id |-> id,
                        data |-> updateData(input, normalizedScopes) ]]
               /\ response' = NoResponse

\* A row with the defined fields of `data` written over it.
applyUpdate(row, data) ==
    [ row EXCEPT
        !.name = IF data.name = Null THEN @ ELSE data.name[1],
        !.homepageUrl = IF data.homepageUrl = Null THEN @ ELSE data.homepageUrl[1],
        !.redirectUris = IF data.redirectUris = Null THEN @ ELSE data.redirectUris[1],
        !.scopes = IF data.scopes = Null THEN @ ELSE data.scopes[1] ]

\* Mutant of updateApp_write: one update per field, the call going on until the
\* last field of `data` is written.
updateApp_write_fieldwise(p) ==
    LET c == calls[p]
        first == IF c.data.name # Null THEN "name"
                 ELSE IF c.data.homepageUrl # Null THEN "homepageUrl"
                 ELSE IF c.data.redirectUris # Null THEN "redirectUris"
                 ELSE "scopes"
        one == [f \in {"name", "homepageUrl", "redirectUris", "scopes"} |->
                   IF f = first THEN c.data[f] ELSE Null]
        rest == [f \in {"name", "homepageUrl", "redirectUris", "scopes"} |->
                    IF f = first THEN Null ELSE c.data[f]]
        updated == applyUpdate(clients[c.id], one)
    IN /\ c.op = "updateApp"
       /\ clients' = [clients EXCEPT ![c.id] = updated]
       /\ IF \A f \in DOMAIN rest : rest[f] = Null
          THEN /\ calls' = [calls EXCEPT ![p] = Idle]
               /\ response' = apiOk("updateApp", c.caller, c.id, Some(dtoOAuthApp(c.id, updated)))
          ELSE /\ calls' = [calls EXCEPT ![p].data = rest]
               /\ response' = NoResponse
       /\ UNCHANGED <<grants, issued, now, request, comments>>

\* Mutant of updateApp_write: an app that was edited goes back to UNTRUSTED.
updateApp_write_resetTrust(p) ==
    LET c == calls[p]
        updated == [applyUpdate(clients[c.id], c.data) EXCEPT !.trustLevel = "UNTRUSTED"]
    IN /\ c.op = "updateApp"
       /\ clients' = [clients EXCEPT ![c.id] = updated]
       /\ calls' = [calls EXCEPT ![p] = Idle]
       /\ response' = apiOk("updateApp", c.caller, c.id, Some(dtoOAuthApp(c.id, updated)))
       /\ UNCHANGED <<grants, issued, now, request, comments>>

\* database.serviceClient.update({ where: { id: app.id }, data }), then apiOk.
updateApp_write(p) ==
    LET c == calls[p]
        updated == applyUpdate(clients[c.id], c.data)
    IN /\ c.op = "updateApp"
       /\ clients' = [clients EXCEPT ![c.id] = updated]
       /\ calls' = [calls EXCEPT ![p] = Idle]
       /\ response' = apiOk("updateApp", c.caller, c.id, Some(dtoOAuthApp(c.id, updated)))
       /\ UNCHANGED <<grants, issued, now, request, comments>>

\* ---------------------------------------------------------------- revokeApp
revokeApp_find(p, caller, id) ==
    LET app == findOwnedActive(id, caller)
    IN /\ FreeSlot(p)
       /\ UNCHANGED <<clients, grants, issued, now, request, comments>>
       /\ IF app = Null
          THEN /\ response' = apiErr("revokeApp", caller, id, "NOT_FOUND", <<"App not found">>)
               /\ UNCHANGED calls
          ELSE /\ calls' = [calls EXCEPT ![p] =
                      [op |-> "revokeApp", caller |-> caller, id |-> id]]
               /\ response' = NoResponse

\* Mutant of revokeApp_write: the grants of the client are revoked with it.
revokeApp_write_cascade(p) ==
    LET c == calls[p]
    IN /\ c.op = "revokeApp"
       /\ clients' = [clients EXCEPT ![c.id].revokedAt = Some(now)]
       /\ grants' = [g \in 1..Len(grants) |->
                       IF grants[g].serviceClientId = c.id /\ grants[g].revokedAt = Null
                       THEN [grants[g] EXCEPT !.revokedAt = Some(now)] ELSE grants[g]]
       /\ calls' = [calls EXCEPT ![p] = Idle]
       /\ response' = apiOk("revokeApp", c.caller, c.id, Null)
       /\ UNCHANGED <<issued, now, request, comments>>

\* Mutant of revokeApp_write: the row is deleted.
revokeApp_write_delete(p) ==
    LET c == calls[p]
    IN /\ c.op = "revokeApp"
       /\ clients' = SubSeq(clients, 1, c.id - 1) \o SubSeq(clients, c.id + 1, Len(clients))
       /\ calls' = [calls EXCEPT ![p] = Idle]
       /\ response' = apiOk("revokeApp", c.caller, c.id, Null)
       /\ UNCHANGED <<grants, issued, now, request, comments>>

\* database.serviceClient.update({ where: { id }, data: { revokedAt: new Date() } })
revokeApp_write(p) ==
    LET c == calls[p]
    IN /\ c.op = "revokeApp"
       /\ clients' = [clients EXCEPT ![c.id].revokedAt = Some(now)]
       /\ calls' = [calls EXCEPT ![p] = Idle]
       /\ response' = apiOk("revokeApp", c.caller, c.id, Null)
       /\ UNCHANGED <<grants, issued, now, request, comments>>

\* ---------------------------------------------------------- rotateAppSecret
rotateAppSecret_find(p, caller, id) ==
    LET app == findOwnedActive(id, caller)
    IN /\ FreeSlot(p)
       /\ UNCHANGED <<clients, grants, issued, now, request, comments>>
       /\ IF app = Null
          THEN /\ response' = apiErr("rotateAppSecret", caller, id, "NOT_FOUND", <<"App not found">>)
               /\ UNCHANGED calls
          ELSE /\ calls' = [calls EXCEPT ![p] =
                      [op |-> "rotateAppSecret", caller |-> caller, id |-> id]]
               /\ response' = NoResponse

\* serviceClientService.rotateServiceClientSecret(id): the table after it stored the
\* verifier of the new secret, in one update of the row.
rotateServiceClientSecret(id, secret) ==
    [clients EXCEPT ![id].secretHash = hashSecret(secret)]

\* Mutant of rotateAppSecret_write: a new secret is returned and never stored.
rotateAppSecret_write_unstored(p) ==
    LET c == calls[p]
        secret == issued + 1
    IN /\ c.op = "rotateAppSecret"
       /\ issued < MaxSecrets
       /\ issued' = secret
       /\ calls' = [calls EXCEPT ![p] = Idle]
       /\ response' = apiOk("rotateAppSecret", c.caller, c.id, Some(secret))
       /\ UNCHANGED <<clients, grants, now, request, comments>>

\* const { clientSecret } = await rotateServiceClientSecret(app.id); return apiOk(...)
rotateAppSecret_write(p) ==
    LET c == calls[p]
        secret == issued + 1
    IN /\ c.op = "rotateAppSecret"
       /\ issued < MaxSecrets
       /\ clients' = rotateServiceClientSecret(c.id, secret)
       /\ issued' = secret
       /\ calls' = [calls EXCEPT ![p] = Idle]
       /\ response' = apiOk("rotateAppSecret", c.caller, c.id, Some(secret))
       /\ UNCHANGED <<grants, now, request, comments>>

\* ----------------------------------------------------------------- listings
\* Mutant of activeAppsFrom: the filter lacks `revokedAt: null`.
RECURSIVE activeAppsFrom_withRevoked(_, _)
activeAppsFrom_withRevoked(hi, owner) ==
    IF hi = 0 THEN <<>>
    ELSE IF owner = Null \/ Some(clients[hi].createdByUserId) = owner
         THEN <<dtoOAuthApp(hi, clients[hi])>> \o activeAppsFrom_withRevoked(hi - 1, owner)
         ELSE activeAppsFrom_withRevoked(hi - 1, owner)

\* The rows of ids hi, hi-1, .., 1 that are active and pass the owner filter
\* (owner = Null: no filter), newest first.
RECURSIVE activeAppsFrom(_, _)
activeAppsFrom(hi, owner) ==
    IF hi = 0 THEN <<>>
    ELSE IF /\ clients[hi].revokedAt = Null
            /\ owner = Null \/ Some(clients[hi].createdByUserId) = owner
         THEN <<dtoOAuthApp(hi, clients[hi])>> \o activeAppsFrom(hi - 1, owner)
         ELSE activeAppsFrom(hi - 1, owner)

\* findMany({ where: { createdByUserId, revokedAt: null }, orderBy: createdAt desc })
getAllOwnedApps(caller) ==
    /\ response' = apiOk("getAllOwnedApps", caller, 0,
                         Some(activeAppsFrom(Len(clients), Some(caller))))
    /\ UNCHANGED <<clients, grants, calls, issued, now, request, comments>>

\* findMany({ where: { revokedAt: null }, orderBy: createdAt desc })
getAllApps(caller) ==
    /\ response' = apiOk("getAllApps", caller, 0, Some(activeAppsFrom(Len(clients), Null)))
    /\ UNCHANGED <<clients, grants, calls, issued, now, request, comments>>

\* ------------------------------------------------------ updateAppTrustLevel
\* findUnique({ where: { id } })
updateAppTrustLevel_find(p, caller, id, trustLevel) ==
    /\ FreeSlot(p)
    /\ UNCHANGED <<clients, grants, issued, now, request, comments>>
    /\ IF id \notin 1..Len(clients)
       THEN /\ response' = apiErr("updateAppTrustLevel", caller, id, "NOT_FOUND",
                                  <<"App not found">>)
            /\ UNCHANGED calls
       ELSE /\ calls' = [calls EXCEPT ![p] =
                   [ op |-> "updateAppTrustLevel", caller |-> caller, id |-> id,
                     trustLevel |-> trustLevel ]]
            /\ response' = NoResponse

\* Mutant of updateAppTrustLevel_write: setting the trust level brings a revoked
\* client back (revokedAt: null in the data).
updateAppTrustLevel_write_reactivate(p) ==
    LET c == calls[p]
    IN /\ c.op = "updateAppTrustLevel"
       /\ clients' = [clients EXCEPT ![c.id].trustLevel = c.trustLevel,
                                     ![c.id].revokedAt = Null]
       /\ calls' = [calls EXCEPT ![p] = Idle]
       /\ response' = apiOk("updateAppTrustLevel", c.caller, c.id, Some(c.trustLevel))
       /\ UNCHANGED <<grants, issued, now, request, comments>>

\* update({ where: { id }, data: { trustLevel } }), then apiOk({ trustLevel })
updateAppTrustLevel_write(p) ==
    LET c == calls[p]
    IN /\ c.op = "updateAppTrustLevel"
       /\ clients' = [clients EXCEPT ![c.id].trustLevel = c.trustLevel]
       /\ calls' = [calls EXCEPT ![p] = Idle]
       /\ response' = apiOk("updateAppTrustLevel", c.caller, c.id, Some(c.trustLevel))
       /\ UNCHANGED <<grants, issued, now, request, comments>>

\* ------------------------------------------------------------------- grants
\* The elements of a sequence.
Range(s) == { s[i] : i \in 1..Len(s) }

\* The active grant of a (user, client) pair, if any.
activeGrants(userId, clientId) ==
    { g \in 1..Len(grants) :
        /\ grants[g].userId = userId
        /\ grants[g].serviceClientId = clientId
        /\ grants[g].revokedAt = Null }

\* Grant store, upsertGrant(userId, clientId, scopes): consent to scopes the active
\* client has registered; an active grant of the pair has its scopes replaced.  A
\* user consents at most MaxGrants times.
upsertGrant(userId, clientId, scopes) ==
    /\ clientId \in 1..Len(clients)
    /\ clients[clientId].revokedAt = Null
    /\ Range(scopes) \subseteq Range(clients[clientId].scopes)
    /\ IF activeGrants(userId, clientId) # {}
       THEN LET g == CHOOSE g \in activeGrants(userId, clientId) : TRUE
            IN /\ grants[g].scopes # scopes
               /\ grants' = [grants EXCEPT ![g].scopes = scopes]
       ELSE /\ Cardinality({g \in 1..Len(grants) : grants[g].userId = userId}) < MaxGrants
            /\ grants' = Append(grants,
                   [ userId |-> userId, serviceClientId |-> clientId,
                     scopes |-> scopes, revokedAt |-> Null ])
    /\ response' = NoResponse
    /\ UNCHANGED <<clients, calls, issued, now, request, comments>>

\* dtoOAuthGrant
dtoOAuthGrant(g) ==
    [ id |-> g, serviceClientId |-> grants[g].serviceClientId,
      scopes |-> grants[g].scopes ]

\* Mutant of ownedGrantsFrom: the filter lacks `revokedAt: null`.
RECURSIVE ownedGrantsFrom_withRevoked(_, _)
ownedGrantsFrom_withRevoked(hi, userId) ==
    IF hi = 0 THEN <<>>
    ELSE IF grants[hi].userId = userId
         THEN <<dtoOAuthGrant(hi)>> \o ownedGrantsFrom_withRevoked(hi - 1, userId)
         ELSE ownedGrantsFrom_withRevoked(hi - 1, userId)

\* The grants of ids hi, hi-1, .., 1 that pass the filter, newest first.
RECURSIVE ownedGrantsFrom(_, _)
ownedGrantsFrom(hi, userId) ==
    IF hi = 0 THEN <<>>
    ELSE IF grants[hi].userId = userId /\ grants[hi].revokedAt = Null
         THEN <<dtoOAuthGrant(hi)>> \o ownedGrantsFrom(hi - 1, userId)
         ELSE ownedGrantsFrom(hi - 1, userId)

\* findMany({ where: { userId, revokedAt: null }, orderBy: { createdAt: "desc" } })
getOwnedOAuthGrants(caller) ==
    /\ response' = apiOk("getOwnedOAuthGrants", caller, 0,
                         Some(ownedGrantsFrom(Len(grants), caller)))
    /\ UNCHANGED <<clients, grants, calls, issued, now, request, comments>>

\* Mutant of revokeOAuthGrant_find: a grant of another user is reported as absent.
revokeOAuthGrant_find_hidesExistence(p, caller, grantId) ==
    /\ FreeSlot(p)
    /\ UNCHANGED <<clients, grants, issued, now, request, comments>>
    /\ IF grantId \notin 1..Len(grants) \/ grants[grantId].userId # caller
       THEN /\ response' = apiErr("revokeOAuthGrant", caller, grantId, "NOT_FOUND",
                                  <<"Grant not found">>)
            /\ UNCHANGED calls
       ELSE /\ calls' = [calls EXCEPT ![p] =
                   [op |-> "revokeOAuthGrant", caller |-> caller, id |-> grantId]]
            /\ response' = NoResponse

\* Mutant of revokeOAuthGrant_find: the ownership check is missing.
revokeOAuthGrant_find_noOwnerCheck(p, caller, grantId) ==
    /\ FreeSlot(p)
    /\ UNCHANGED <<clients, grants, issued, now, request, comments>>
    /\ IF grantId \notin 1..Len(grants)
       THEN /\ response' = apiErr("revokeOAuthGrant", caller, grantId, "NOT_FOUND",
                                  <<"Grant not found">>)
            /\ UNCHANGED calls
       ELSE /\ calls' = [calls EXCEPT ![p] =
                   [op |-> "revokeOAuthGrant", caller |-> caller, id |-> grantId]]
            /\ response' = NoResponse

\* findUnique({ where: { id: grantId } }), then the ownership check.
revokeOAuthGrant_find(p, caller, grantId) ==
    /\ FreeSlot(p)
    /\ UNCHANGED <<clients, grants, issued, now, request, comments>>
    /\ IF grantId \notin 1..Len(grants)
       THEN /\ response' = apiErr("revokeOAuthGrant", caller, grantId, "NOT_FOUND",
                                  <<"Grant not found">>)
            /\ UNCHANGED calls
       ELSE IF grants[grantId].userId # caller
       THEN /\ response' = apiErr("revokeOAuthGrant", caller, grantId, "NO_PERMISSION",
                                  <<"You do not have permission to revoke this grant.">>)
            /\ UNCHANGED calls
       ELSE /\ calls' = [calls EXCEPT ![p] =
                   [op |-> "revokeOAuthGrant", caller |-> caller, id |-> grantId]]
            /\ response' = NoResponse

\* database.serviceGrant.update({ where: { id }, data: { revokedAt: new Date() } })
revokeOAuthGrant_write(p) ==
    LET c == calls[p]
    IN /\ c.op = "revokeOAuthGrant"
       /\ grants' = [grants EXCEPT ![c.id].revokedAt = Some(now)]
       /\ calls' = [calls EXCEPT ![p] = Idle]
       /\ response' = apiOk("revokeOAuthGrant", c.caller, c.id, Null)
       /\ UNCHANGED <<clients, issued, now, request, comments>>

\* ----------------------------------------------------------------- comments
\* comment.create: the timelapse that getTimelapseById found is published or not;
\* database.comment.create gives the row the next id.
comment_create(caller, isPublished) ==
    /\ UNCHANGED <<clients, grants, calls, issued, now, request>>
    /\ IF ~isPublished
       THEN /\ response' = apiErr("comment.create", caller, 0, "ERROR",
                                  <<"Cannot post comments on unpublished timelapses.">>)
            /\ UNCHANGED comments
       ELSE /\ Len(comments) < MaxComments
            /\ comments' = Append(comments, Some([authorId |-> caller]))
            /\ response' = apiOk("comment.create", caller, Len(comments) + 1, Null)

\* database.comment.findUnique({ where: { id } })
findComment(commentId) ==
    IF commentId \in 1..Len(comments) THEN comments[commentId] ELSE Null

\* Mutant of comment_delete_find: the check of the author is missing.
comment_delete_find_noAuthorCheck(p, caller, commentId) ==
    LET comment == findComment(commentId)
    IN /\ FreeSlot(p)
       /\ UNCHANGED <<clients, grants, issued, now, request, comments>>
       /\ IF comment = Null
          THEN /\ response' = apiErr("comment.delete", caller, commentId, "NOT_FOUND",
                                     <<"Comment not found.">>)
               /\ UNCHANGED calls
          ELSE /\ calls' = [calls EXCEPT ![p] =
                      [op |-> "comment.delete", caller |-> caller, id |-> commentId]]
               /\ response' = NoResponse

\* comment.delete up to its second await: findUnique and the two checks.
comment_delete_find(p, caller, commentId) ==
    LET comment == findComment(commentId)
    IN /\ FreeSlot(p)
       /\ UNCHANGED <<clients, grants, issued, now, request, comments>>
       /\ IF comment = Null
          THEN /\ response' = apiErr("comment.delete", caller, commentId, "NOT_FOUND",
                                     <<"Comment not found.">>)
               /\ UNCHANGED calls
          ELSE IF comment[1].authorId # caller
          THEN /\ response' = apiErr("comment.delete", caller, commentId, "NO_PERMISSION",
                                     <<"You can only delete your own comments.">>)
               /\ UNCHANGED calls
          ELSE /\ calls' = [calls EXCEPT ![p] =
                      [op |-> "comment.delete", caller |-> caller, id |-> commentId]]
               /\ response' = NoResponse

\* database.comment.delete({ where: { id } }), then apiOk; the delete of a row that
\* is gone throws, and the call fails with the error of an uncaught exception.
comment_delete_write(p) ==
    LET c == calls[p]
    IN /\ c.op = "comment.delete"
       /\ calls' = [calls EXCEPT ![p] = Idle]
       /\ UNCHANGED <<clients, grants, issued, now, request>>
       /\ IF findComment(c.id) = Null
          THEN /\ response' = apiErr("comment.delete", c.caller, c.id, "INTERNAL_SERVER_ERROR",
                                     <<"Record to delete does not exist.">>)
               /\ UNCHANGED comments
          ELSE /\ comments' = [comments EXCEPT ![c.id] = Null]
               /\ response' = apiOk("comment.delete", c.caller, c.id, Null)

\* Time passes.
Tick ==
    /\ now < MaxTime
    /\ now' = now + 1
    /\ response' = NoResponse
    /\ UNCHANGED <<clients, grants, calls, issued, request, comments>>

\* ------------------------------------------------------- request contexts
\* trpc.ts createContext: the first-party context; `user` is what
\* getAuthenticatedUser(req) found (a user of the session, or null).
createContext(user) ==
    [user |-> user, scopes |-> <<>>, actor |-> Null]

\* Mutant of getRestAuthContext: the token is trusted without a look at its actor
\* client in the store.
getRestAuthContext_noLiveCheck(credential) ==
    IF credential = Null
    THEN [ok |-> TRUE, error |-> "", user |-> Null, scopes |-> <<>>, actor |-> Null]
    ELSE LET token == credential[1]
         IN IF token.sig # "valid"
            THEN [ok |-> FALSE, error |-> "Malformed", user |-> Null, scopes |-> <<>>,
                  actor |-> Null]
            ELSE IF ~(now < token.exp)
            THEN [ok |-> FALSE, error |-> "Expired", user |-> Null, scopes |-> <<>>,
                  actor |-> Null]
            ELSE [ok |-> TRUE, error |-> "", user |-> Some(token.sub),
                  scopes |-> token.scopes, actor |-> Some(token.actor)]

\* auth.getRestAuthContext(req): no credential gives the anonymous context; an
\* on-behalf-of token is verified (signature, expiry, then the live state of its
\* actor client) and gives its subject, its actor client and its scopes; a token
\* that fails verification is refused, which fails the request.
getRestAuthContext(credential) ==
    IF credential = Null
    THEN [ok |-> TRUE, error |-> "", user |-> Null, scopes |-> <<>>, actor |-> Null]
    ELSE LET token == credential[1]
         IN IF token.sig # "valid"
            THEN [ok |-> FALSE, error |-> "Malformed", user |-> Null, scopes |-> <<>>,
                  actor |-> Null]
            ELSE IF ~(now < token.exp)
            THEN [ok |-> FALSE, error |-> "Expired", user |-> Null, scopes |-> <<>>,
                  actor |-> Null]
            ELSE IF token.actor \notin 1..Len(clients)
            THEN [ok |-> FALSE, error |-> "NotFound", user |-> Null, scopes |-> <<>>,
                  actor |-> Null]
            ELSE IF clients[token.actor].revokedAt # Null
            THEN [ok |-> FALSE, error |-> "Revoked", user |-> Null, scopes |-> <<>>,
                  actor |-> Null]
            ELSE [ok |-> TRUE, error |-> "", user |-> Some(token.sub),
                  scopes |-> token.scopes, actor |-> Some(token.actor)]

\* pages/api/rest/[...trpc].ts createContext
restCreateContext(authContext) ==
    [user |-> authContext.user, scopes |-> authContext.scopes, actor |-> authContext.actor]

\* Mutant of protectedProcedure: the handler gets the required scopes as its scopes.
protectedProcedure_requiredAsScopes(requiredScopes, ctx) ==
    LET scopes == ctx.scopes
        missingScopes == SelectSeq(requiredScopes, LAMBDA scope : scope \notin Range(scopes))
    IN IF ctx.user = Null
       THEN [code |-> "UNAUTHORIZED", ctx |-> Null]
       ELSE IF Len(requiredScopes) > 0 /\ Len(scopes) > 0 /\ Len(missingScopes) > 0
       THEN [code |-> "FORBIDDEN", ctx |-> Null]
       ELSE [code |-> "next",
             ctx |-> Some([user |-> ctx.user, scopes |-> requiredScopes, actor |-> ctx.actor])]

\* Mutant of protectedProcedure: the check of ctx.user is missing.
protectedProcedure_noUserCheck(requiredScopes, ctx) ==
    LET scopes == ctx.scopes
        missingScopes == SelectSeq(requiredScopes, LAMBDA scope : scope \notin Range(scopes))
    IN IF Len(requiredScopes) > 0 /\ Len(scopes) > 0 /\ Len(missingScopes) > 0
       THEN [code |-> "FORBIDDEN", ctx |-> Null]
       ELSE [code |-> "next",
             ctx |-> Some([user |-> ctx.user, scopes |-> scopes, actor |-> ctx.actor])]

\* Mutant of protectedProcedure: a scoped procedure is closed to every context that
\* carries scopes.
protectedProcedure_forbidScoped(requiredScopes, ctx) ==
    LET scopes == ctx.scopes
    IN IF ctx.user = Null
       THEN [code |-> "UNAUTHORIZED", ctx |-> Null]
       ELSE IF Len(requiredScopes) > 0 /\ Len(scopes) > 0
       THEN [code |-> "FORBIDDEN", ctx |-> Null]
       ELSE [code |-> "next",
             ctx |-> Some([user |-> ctx.user, scopes |-> scopes, actor |-> ctx.actor])]

\* Mutant of protectedProcedure: one required scope that is present is enough
\* (`some` where the code has `filter` and a length check).
protectedProcedure_anyScope(requiredScopes, ctx) ==
    LET scopes == ctx.scopes
        missingScopes == SelectSeq(requiredScopes, LAMBDA scope : scope \notin Range(scopes))
    IN IF ctx.user = Null
       THEN [code |-> "UNAUTHORIZED", ctx |-> Null]
       ELSE IF /\ Len(requiredScopes) > 0 /\ Len(scopes) > 0
               /\ Len(missingScopes) = Len(requiredScopes)
       THEN [code |-> "FORBIDDEN", ctx |-> Null]
       ELSE [code |-> "next",
             ctx |-> Some([user |-> ctx.user, scopes |-> scopes, actor |-> ctx.actor])]

\* Mutant of protectedProcedure: the scope check does not skip an empty scope list.
protectedProcedure_emptyScopesChecked(requiredScopes, ctx) ==
    LET scopes == ctx.scopes
        missingScopes == SelectSeq(requiredScopes, LAMBDA scope : scope \notin Range(scopes))
    IN IF ctx.user = Null
       THEN [code |-> "UNAUTHORIZED", ctx |-> Null]
       ELSE IF Len(requiredScopes) > 0 /\ Len(missingScopes) > 0
       THEN [code |-> "FORBIDDEN", ctx |-> Null]
       ELSE [code |-> "next",
             ctx |-> Some([user |-> ctx.user, scopes |-> scopes, actor |-> ctx.actor])]

\* The middleware of protectedProcedure(requiredScopes): the error it throws, or
\* "next" with the context it hands to the handler.
protectedProcedure(requiredScopes, ctx) ==
    LET scopes == ctx.scopes
        missingScopes == SelectSeq(requiredScopes, LAMBDA scope : scope \notin Range(scopes))
    IN IF ctx.user = Null
       THEN [code |-> "UNAUTHORIZED", ctx |-> Null]
       ELSE IF Len(requiredScopes) > 0 /\ Len(scopes) > 0 /\ Len(missingScopes) > 0
       THEN [code |-> "FORBIDDEN", ctx |-> Null]
       ELSE [code |-> "next",
             ctx |-> Some([user |-> ctx.user, scopes |-> scopes, actor |-> ctx.actor])]

\* Mutant of publicProcedure: the procedure is built on the authenticating middleware.
publicProcedure_authed(ctx) == protectedProcedure(<<>>, ctx)

\* publicProcedure: the bare procedure, no middleware; the handler gets the context.
publicProcedure(ctx) == [code |-> "next", ctx |-> Some(ctx)]

\* A request to a protected procedure over the first-party tRPC endpoint.
trpcRequest(user, requiredScopes) ==
    LET ctx == createContext(user)
    IN /\ request' = [ kind |-> "trpc", procedure |-> "protected", credential |-> Null, error |-> "",
                       ctx |-> Some(ctx), requiredScopes |-> requiredScopes,
                       result |-> protectedProcedure(requiredScopes, ctx) ]
       /\ response' = NoResponse
       /\ UNCHANGED <<clients, grants, calls, issued, now, comments>>

\* A request to a public procedure over the first-party tRPC endpoint.
trpcPublicRequest(user) ==
    LET ctx == createContext(user)
    IN /\ request' = [ kind |-> "trpc", procedure |-> "public", credential |-> Null, error |-> "",
                       ctx |-> Some(ctx), requiredScopes |-> <<>>,
                       result |-> publicProcedure(ctx) ]
       /\ response' = NoResponse
       /\ UNCHANGED <<clients, grants, calls, issued, now, comments>>

\* A request to a protected procedure over the REST endpoint: createContext, then
\* the procedure; a createContext that throws fails the request.
restRequest(credential, requiredScopes) ==
    LET authContext == getRestAuthContext(credential)
        ctx == restCreateContext(authContext)
    IN /\ request' =
            IF authContext.ok
            THEN [ kind |-> "rest", procedure |-> "protected", credential |-> credential,
                   error |-> authContext.error,
                   ctx |-> Some(ctx), requiredScopes |-> requiredScopes,
                   result |-> protectedProcedure(requiredScopes, ctx) ]
            ELSE [ kind |-> "rest", procedure |-> "protected", credential |-> credential,
                   error |-> authContext.error,
                   ctx |-> Null, requiredScopes |-> requiredScopes,
                   result |-> [code |-> "UNAUTHORIZED", ctx |-> Null] ]
       /\ response' = NoResponse
       /\ UNCHANGED <<clients, grants, calls, issued, now, comments>>

\* Mutant of restPublicRequest: a credential that fails verification is served with
\* the anonymous context.
restPublicRequest_downgrade(credential) ==
    LET authContext == getRestAuthContext(credential)
        ctx == restCreateContext(authContext)
    IN /\ request' = [ kind |-> "rest", procedure |-> "public", credential |-> credential,
                       error |-> authContext.error,
                       ctx |-> Some(ctx), requiredScopes |-> <<>>,
                       result |-> publicProcedure(ctx) ]
       /\ response' = NoResponse
       /\ UNCHANGED <<clients, grants, calls, issued, now, comments>>

\* A request to a public procedure over the REST endpoint.
restPublicRequest(credential) ==
    LET authContext == getRestAuthContext(credential)
        ctx == restCreateContext(authContext)
    IN /\ request' =
            IF authContext.ok
            THEN [ kind |-> "rest", procedure |-> "public", credential |-> credential,
                   error |-> authContext.error,
                   ctx |-> Some(ctx), requiredScopes |-> <<>>,
                   result |-> publicProcedure(ctx) ]
            ELSE [ kind |-> "rest", procedure |-> "public", credential |-> credential,
                   error |-> authContext.error,
                   ctx |-> Null, requiredScopes |-> <<>>,
                   result |-> [code |-> "UNAUTHORIZED", ctx |-> Null] ]
       /\ response' = NoResponse
       /\ UNCHANGED <<clients, grants, calls, issued, now, comments>>

\* The reply of the step just taken (a handler's result, or the outcome of a request
\* at the middleware) is sent to its caller.  Sending touches no shared state, so it
\* is taken before the next store operation.
respond ==
    /\ response # NoResponse \/ request # NoRequest
    /\ response' = NoResponse
    /\ request' = NoRequest
    /\ UNCHANGED <<clients, grants, calls, issued, now, comments>>

\* ------------------------------------------------------------ inputs of Spec
CreateInputs ==
    [ name : {"App"},
      homepageUrl : {HomeA, HomeB},
      redirectUris : {<<>>, <<CbA>>, <<CbA, CbA>>, <<CbA, CbB>>},
      scopes : {<<>>, <<" user:read ", "user:read">>, <<"user:read", "admin:all">>} ]

\* updateApp inputs: the URL fields in every combination, the scopes alone, the name
\* alone, and two inputs that supply a valid field together with an invalid one.
UpdateFields ==
    [ name : {Null},
      homepageUrl : {Null, Some(HomeA), Some(HomeB)},
      redirectUris : {Null, Some(<<>>), Some(<<CbA, CbA>>), Some(<<CbB>>)},
      scopes : {Null, Some(<<>>), Some(<<" user:read ", "user:read">>),
                Some(<<"user:read", "admin:all">>)} ]

UpdateInputs ==
    { i \in UpdateFields :
        \/ i.name = Null /\ i.scopes = Null
        \/ i.name = Null /\ i.homepageUrl = Null /\ i.redirectUris = Null
        \/ i.homepageUrl = Null /\ i.redirectUris = Null /\ i.scopes = Null
        \/ /\ i.name = Null /\ i.homepageUrl = Null
           /\ i.redirectUris = Some(<<CbB>>) /\ i.scopes = Some(<<>>)
        \/ /\ i.name = Null /\ i.homepageUrl = Null
           /\ i.redirectUris = Some(<<>>) /\ i.scopes = Some(<<"user:read", "admin:all">>) }

Next ==
    \/ respond
    \/ /\ response = NoResponse
       /\ \/ \E caller \in Owners, input \in CreateInputs : createApp(caller, input)
          \/ \E p \in Slots, caller \in Users, id \in ClientIds, input \in UpdateInputs :
                updateApp_find(p, caller, id, input)
          \/ \E p \in Slots : updateApp_write(p)
          \/ \E p \in Slots, caller \in Users, id \in ClientIds : revokeApp_find(p, caller, id)
          \/ \E p \in Slots : revokeApp_write(p)

Spec == Init /\ [][Next]_vars

\* --------------------------------------------- secrets: create, rotate, revoke
\* One registration that succeeds, one refused for each of the two checks, and one
\* with two unknown scopes, one of them given twice.
LeanCreateInputs ==
    { [ name |-> "App", homepageUrl |-> HomeA, redirectUris |-> <<CbA>>,
        scopes |-> <<"user:read", "timelapse:read">> ],
      [ name |-> "App", homepageUrl |-> HomeA, redirectUris |-> <<CbA>>,
        scopes |-> <<"user:read", "admin:all">> ],
      [ name |-> "App", homepageUrl |-> HomeA, redirectUris |-> <<CbA, CbB>>,
        scopes |-> <<"user:read">> ],
      [ name |-> "App", homepageUrl |-> HomeA, redirectUris |-> <<CbA>>,
        scopes |-> <<"root", "user:read", "admin:all", " root ">> ] }

NextSecret ==
    \/ respond
    \/ /\ response = NoResponse
       /\ \/ \E caller \in Owners, input \in LeanCreateInputs : createApp(caller, input)
          \/ \E p \in Slots, caller \in Users, id \in ClientIds : rotateAppSecret_find(p, caller, id)
          \/ \E p \in Slots : rotateAppSecret_write(p)
          \/ \E p \in Slots, caller \in Users, id \in ClientIds : revokeApp_find(p, caller, id)
          \/ \E p \in Slots : revokeApp_write(p)
          \/ Tick

SpecSecret == Init /\ [][NextSecret]_vars

\* ------------------------------------ grants: consent, scope updates, revocation
\* updateApp inputs: a smaller scope list (given padded and twice), an unknown scope,
\* valid scopes together with a redirect URI on another host, and two unknown scopes,
\* one of them given twice.
ScopeUpdateInputs ==
    { [ name |-> Null, homepageUrl |-> Null, redirectUris |-> Null,
        scopes |-> Some(<<" user:read ", "user:read">>) ],
      [ name |-> Null, homepageUrl |-> Null, redirectUris |-> Null,
        scopes |-> Some(<<"user:read", "admin:all">>) ],
      [ name |-> Null, homepageUrl |-> Null, redirectUris |-> Some(<<CbB>>),
        scopes |-> Some(<<>>) ],
      [ name |-> Null, homepageUrl |-> Null, redirectUris |-> Null,
        scopes |-> Some(<<"root", "user:read", "admin:all", " root ">>) ] }

ConsentScopes == {<<"user:read">>, <<"user:read", "timelapse:read">>}
\* The users who consent to apps; the other users call the handlers as strangers.
Consenters == {"u2"}
GrantIds == 1..(MaxGrants + 1)

NextGrants ==
    \/ respond
    \/ /\ response = NoResponse
       /\ \/ \E caller \in Owners, input \in LeanCreateInputs : createApp(caller, input)
          \/ \E p \in Slots, caller \in Users, id \in ClientIds, input \in ScopeUpdateInputs :
                updateApp_find(p, caller, id, input)
          \/ \E p \in Slots : updateApp_write(p)
          \/ \E p \in Slots, caller \in Users, id \in ClientIds : revokeApp_find(p, caller, id)
          \/ \E p \in Slots : revokeApp_write(p)
          \/ \E u \in Consenters, id \in ClientIds, scopes \in ConsentScopes :
                upsertGrant(u, id, scopes)
          \/ \E u \in Users : getOwnedOAuthGrants(u)
          \/ \E p \in Slots, u \in Users, g \in GrantIds : revokeOAuthGrant_find(p, u, g)
          \/ \E p \in Slots : revokeOAuthGrant_write(p)

SpecGrants == Init /\ [][NextGrants]_vars

\* ------------------------------------------- grants of several users, revoked
\* The grant ids that calls name: those the table can hold and one more.
AllGrantIds == 1..(MaxGrants * Cardinality(Users) + 1)

NextRevokeGrant ==
    \/ respond
    \/ /\ response = NoResponse
       /\ \/ \E caller \in Owners, input \in LeanCreateInputs : createApp(caller, input)
          \/ \E u \in Users, id \in ClientIds : upsertGrant(u, id, <<"user:read">>)
          \/ \E u \in Users : getOwnedOAuthGrants(u)
          \/ \E p \in Slots, u \in Users, g \in AllGrantIds : revokeOAuthGrant_find(p, u, g)
          \/ \E p \in Slots : revokeOAuthGrant_write(p)

SpecRevokeGrant == Init /\ [][NextRevokeGrant]_vars

\* ------------------------------------- what the responses of the registry carry
\* The administrators: the callers of the adminProcedure handlers.
Admins == {"u2"}
OAuthTrustLevels == {"UNTRUSTED", "TRUSTED"}

NextResponses ==
    \/ respond
    \/ /\ response = NoResponse
       /\ \/ \E caller \in Owners, input \in LeanCreateInputs : createApp(caller, input)
          \/ \E p \in Slots, caller \in Users, id \in ClientIds, input \in ScopeUpdateInputs :
                updateApp_find(p, caller, id, input)
          \/ \E p \in Slots : updateApp_write(p)
          \/ \E p \in Slots, caller \in Users, id \in ClientIds : rotateAppSecret_find(p, caller, id)
          \/ \E p \in Slots : rotateAppSecret_write(p)
          \/ \E p \in Slots, caller \in Admins, id \in ClientIds, t \in OAuthTrustLevels :
                updateAppTrustLevel_find(p, caller, id, t)
          \/ \E p \in Slots : updateAppTrustLevel_write(p)
          \/ \E caller \in Users : getAllOwnedApps(caller)
          \/ \E caller \in Admins : getAllApps(caller)

SpecResponses == Init /\ [][NextResponses]_vars

\* ----------------------------------------------- scope lists, valid and unknown
NextScopes ==
    \/ respond
    \/ /\ response = NoResponse
       /\ \/ \E caller \in Owners, input \in LeanCreateInputs : createApp(caller, input)
          \/ \E p \in Slots, caller \in Users, id \in ClientIds, input \in ScopeUpdateInputs :
                updateApp_find(p, caller, id, input)
          \/ \E p \in Slots : updateApp_write(p)
          \/ \E p \in Slots, caller \in Owners, id \in ClientIds : revokeApp_find(p, caller, id)
          \/ \E p \in Slots : revokeApp_write(p)

SpecScopes == Init /\ [][NextScopes]_vars

\* ------------------------------------------- homepage and redirect URI updates
\* updateApp inputs that supply the redirect URIs alone, the homepage alone, or both.
UrlUpdateInputs ==
    { [ name |-> Null, homepageUrl |-> h, redirectUris |-> r, scopes |-> Null ] :
        <<h, r>> \in { <<Null, Some(<<CbA>>)>>, <<Null, Some(<<CbA, CbB>>)>>,
                       <<Some(HomeA), Null>>, <<Some(HomeB), Null>>,
                       <<Some(HomeB), Some(<<CbB>>)>>, <<Some(HomeB), Some(<<CbA>>)>>,
                       <<Some(HomeA), Some(<<CbA>>)>> } }

NextUrls ==
    \/ respond
    \/ /\ response = NoResponse
       /\ \/ \E caller \in Owners, input \in LeanCreateInputs : createApp(caller, input)
          \/ \E p \in Slots, caller \in Users, id \in ClientIds, input \in UrlUpdateInputs :
                updateApp_find(p, caller, id, input)
          \/ \E p \in Slots : updateApp_write(p)

SpecUrls == Init /\ [][NextUrls]_vars

\* ------------------------------------------------ listings of apps, by any user
NextListing ==
    \/ respond
    \/ /\ response = NoResponse
       /\ \/ \E caller \in Users, input \in LeanCreateInputs : createApp(caller, input)
          \/ \E p \in Slots, caller \in Users, id \in ClientIds : revokeApp_find(p, caller, id)
          \/ \E p \in Slots : revokeApp_write(p)
          \/ \E caller \in Users : getAllOwnedApps(caller)
          \/ \E caller \in Admins : getAllApps(caller)
          \/ Tick

SpecListing == Init /\ [][NextListing]_vars

\* ------------------------------------- the life of an app, from creation to revocation
\* The owner edits, rotates and revokes; any user tries to revoke; the admin promotes.
PromotedTrustLevels == {"TRUSTED"}
NextLifecycle ==
    \/ respond
    \/ /\ response = NoResponse
       /\ \/ \E caller \in Owners, input \in LeanCreateInputs : createApp(caller, input)
          \/ \E p \in Slots, caller \in Owners, id \in ClientIds, input \in ScopeUpdateInputs :
                updateApp_find(p, caller, id, input)
          \/ \E p \in Slots : updateApp_write(p)
          \/ \E p \in Slots, caller \in Owners, id \in ClientIds : rotateAppSecret_find(p, caller, id)
          \/ \E p \in Slots : rotateAppSecret_write(p)
          \/ \E p \in Slots, caller \in Users, id \in ClientIds : revokeApp_find(p, caller, id)
          \/ \E p \in Slots : revokeApp_write(p)
          \/ \E p \in Slots, caller \in Admins, id \in ClientIds, t \in PromotedTrustLevels :
                updateAppTrustLevel_find(p, caller, id, t)
          \/ \E p \in Slots : updateAppTrustLevel_write(p)

SpecLifecycle == Init /\ [][NextLifecycle]_vars

\* ------------------------------------------- rows of both tables, once revoked
NextRows ==
    \/ respond
    \/ /\ response = NoResponse
       /\ \/ \E caller \in Owners, input \in LeanCreateInputs : createApp(caller, input)
          \/ \E p \in Slots, caller \in Owners, id \in ClientIds : revokeApp_find(p, caller, id)
          \/ \E p \in Slots : revokeApp_write(p)
          \/ \E u \in Consenters, id \in ClientIds : upsertGrant(u, id, <<"user:read">>)
          \/ \E p \in Slots, u \in Users, g \in GrantIds : revokeOAuthGrant_find(p, u, g)
          \/ \E p \in Slots : revokeOAuthGrant_write(p)

SpecRows == Init /\ [][NextRows]_vars

\* ------------------------------------------------ a grant revoked, and again later
NextGrantTimes ==
    \/ respond
    \/ /\ response = NoResponse
       /\ \/ \E caller \in Owners, input \in LeanCreateInputs : createApp(caller, input)
          \/ \E u \in Consenters, id \in ClientIds : upsertGrant(u, id, <<"user:read">>)
          \/ \E p \in Slots, u \in Consenters, g \in GrantIds : revokeOAuthGrant_find(p, u, g)
          \/ \E p \in Slots : revokeOAuthGrant_write(p)
          \/ Tick

SpecGrantTimes == Init /\ [][NextGrantTimes]_vars

\* ------------------------------------ updates of some fields, and readers of apps
\* Updates that bring one field, two fields and all fields; `name` stands for the
\* fields that are written as they come (name, description, iconUrl).
FieldUpdateInputs ==
    { [ name |-> Some("Renamed"), homepageUrl |-> Null, redirectUris |-> Null, scopes |-> Null ],
      [ name |-> Null, homepageUrl |-> Null, redirectUris |-> Null,
        scopes |-> Some(<<"user:read">>) ],
      [ name |-> Null, homepageUrl |-> Some(HomeB), redirectUris |-> Some(<<CbB>>),
        scopes |-> Null ],
      [ name |-> Some("Renamed"), homepageUrl |-> Some(HomeB), redirectUris |-> Some(<<CbB>>),
        scopes |-> Some(<<"user:read">>) ] }

NextUpdate ==
    \/ respond
    \/ /\ response = NoResponse
       /\ \/ \E caller \in Owners, input \in LeanCreateInputs : createApp(caller, input)
          \/ \E p \in Slots, caller \in Users, id \in ClientIds, input \in FieldUpdateInputs :
                updateApp_find(p, caller, id, input)
          \/ \E p \in Slots : updateApp_write(p)
          \/ \E caller \in Owners : getAllOwnedApps(caller)
          \/ \E caller \in Admins : getAllApps(caller)

SpecUpdate == Init /\ [][NextUpdate]_vars

\* ------------------------------------------- every write, on rows once revoked
\* An update that brings a name and nothing else.
RenameInputs ==
    { [ name |-> Some("Renamed"), homepageUrl |-> Null, redirectUris |-> Null, scopes |-> Null ] }

\* The client that is edited, rotated and promoted; every client may be revoked.
EditedIds == {1}

NextRevoked ==
    \/ respond
    \/ /\ response = NoResponse
       /\ \/ \E caller \in Owners, input \in LeanCreateInputs : createApp(caller, input)
          \/ \E p \in Slots, caller \in Owners, id \in EditedIds, input \in RenameInputs :
                updateApp_find(p, caller, id, input)
          \/ \E p \in Slots : updateApp_write(p)
          \/ \E p \in Slots, caller \in Owners, id \in EditedIds : rotateAppSecret_find(p, caller, id)
          \/ \E p \in Slots : rotateAppSecret_write(p)
          \/ \E p \in Slots, caller \in Owners, id \in ClientIds : revokeApp_find(p, caller, id)
          \/ \E p \in Slots : revokeApp_write(p)
          \/ \E p \in Slots, caller \in Admins, id \in EditedIds, t \in PromotedTrustLevels :
                updateAppTrustLevel_find(p, caller, id, t)
          \/ \E p \in Slots : updateAppTrustLevel_write(p)
          \/ \E u \in Consenters, id \in ClientIds : upsertGrant(u, id, <<"user:read">>)
          \/ \E p \in Slots, u \in Consenters, g \in GrantIds : revokeOAuthGrant_find(p, u, g)
          \/ \E p \in Slots : revokeOAuthGrant_write(p)

SpecRevoked == Init /\ [][NextRevoked]_vars

\* ------------------------------------------- owners and strangers on the same app
NextStrangers ==
    \/ respond
    \/ /\ response = NoResponse
       /\ \/ \E caller \in Owners, input \in LeanCreateInputs : createApp(caller, input)
          \/ \E p \in Slots, caller \in Users, id \in ClientIds, input \in RenameInputs :
                updateApp_find(p, caller, id, input)
          \/ \E p \in Slots : updateApp_write(p)
          \/ \E p \in Slots, caller \in Users, id \in ClientIds : rotateAppSecret_find(p, caller, id)
          \/ \E p \in Slots : rotateAppSecret_write(p)
          \/ \E p \in Slots, caller \in Users, id \in ClientIds : revokeApp_find(p, caller, id)
          \/ \E p \in Slots : revokeApp_write(p)

SpecStrangers == Init /\ [][NextStrangers]_vars

\* ------------------------------- redirect URIs of other schemes, ports and paths
\* On the host of HomeA with another scheme, port and path; on another host with
\* the scheme, port and path of HomeA.
CbAPort == Url("http", "app.example.com", "8080", "/oauth/callback")
CbBRoot == Url("https", "evil.com", "", "/")

HostCreateInputs ==
    { [ name |-> "App", homepageUrl |-> HomeA, redirectUris |-> r, scopes |-> <<"user:read">> ] :
        r \in { <<CbA>>, <<CbAPort>>, <<CbBRoot>>, <<CbAPort, CbBRoot>> } }

HomeBPort == Url("http", "evil.com", "3000", "/home")

HostUpdateInputs ==
    { [ name |-> Null, homepageUrl |-> h, redirectUris |-> Some(r), scopes |-> Null ] :
        <<h, r>> \in { <<Null, <<CbA, CbAPort>>>>, <<Null, <<CbBRoot>>>>,
                       <<Null, <<CbAPort, CbB>>>>, <<Null, <<CbB>>>>,
                       <<Some(HomeBPort), <<CbB, CbBRoot>>>>,
                       <<Some(HomeBPort), <<CbAPort>>>>,
                       <<Some(HomeA), <<CbAPort>>>> } }

NextHosts ==
    \/ respond
    \/ /\ response = NoResponse
       /\ \/ \E caller \in Owners, input \in HostCreateInputs : createApp(caller, input)
          \/ \E p \in Slots, caller \in Owners, id \in ClientIds, input \in HostUpdateInputs :
                updateApp_find(p, caller, id, input)
          \/ \E p \in Slots : updateApp_write(p)

SpecHosts == Init /\ [][NextHosts]_vars

\* ------------------------------------------- comments, written and deleted
\* The comment ids that calls name: those the table can hold and one more.
CommentIds == 1..(MaxComments + 1)

NextComments ==
    \/ respond
    \/ /\ response = NoResponse
       /\ \/ \E caller \in Users, isPublished \in BOOLEAN : comment_create(caller, isPublished)
          \/ \E p \in Slots, caller \in Users, id \in CommentIds : comment_delete_find(p, caller, id)
          \/ \E p \in Slots : comment_delete_write(p)

SpecComments == Init /\ [][NextComments]_vars

\* --------------------------------------------- requests to protected procedures
RequiredScopeLists ==
    {<<>>, <<"user:read">>, <<"timelapse:write">>, <<"user:read", "timelapse:write">>}

TokenScopeLists ==
    {<<>>, <<"user:read">>, <<"timelapse:read">>, <<"timelapse:write", "user:read">>}

\* The on-behalf-of tokens in circulation: signed tokens that expire after the
\* first tick or never within the run, and one token that does not verify.
TokenExpiries == {2, MaxTime + 1}
Tokens ==
    [sub : Users, actor : 1..MaxClients, scopes : TokenScopeLists,
     exp : TokenExpiries, sig : {"valid"}]
        \cup { [sub |-> "u1", actor |-> 1, scopes |-> <<"user:read">>,
                exp |-> MaxTime + 1, sig |-> "bad"] }

NextAuth ==
    \/ respond
    \/ /\ response = NoResponse /\ request = NoRequest
       /\ \/ \E caller \in Owners, input \in LeanCreateInputs : createApp(caller, input)
          \/ \E p \in Slots, caller \in Owners, id \in ClientIds : revokeApp_find(p, caller, id)
          \/ \E p \in Slots : revokeApp_write(p)
          \/ \E user \in {Null} \cup {Some(u) : u \in Users}, S \in RequiredScopeLists :
                trpcRequest(user, S)
          \/ \E user \in {Null} \cup {Some(u) : u \in Users} : trpcPublicRequest(user)
          \/ \E credential \in {Null} \cup {Some(t) : t \in Tokens}, S \in RequiredScopeLists :
                restRequest(credential, S)
          \/ \E credential \in {Null} \cup {Some(t) : t \in Tokens} :
                restPublicRequest(credential)
          \/ Tick

SpecAuth == Init /\ [][NextAuth]_vars

\* ================================================================== claims

\* C1: in every reachable state every stored redirect URI of every client has the
\* host of that client's stored homepageUrl.
C1_RedirectHostsMatchHomepage ==
    \A id \in 1..Len(clients) : \A i \in 1..Len(clients[id].redirectUris) :
        hostname(clients[id].redirectUris[i]) = hostname(clients[id].homepageUrl)

\* C2: the store write of an updateApp call never lands on a client whose revokedAt
\* is already set.
C2_UpdateNeverWritesRevoked ==
    [][ \A p \in Slots :
          (calls[p].op = "updateApp" /\ calls'[p] = Idle)
              => clients[calls[p].id].revokedAt = Null ]_vars

\* C3: a request with an authenticated context passes the protectedProcedure
\* middleware iff the required scopes S are empty, or the context has no actor, or
\* S is a subset of the context's scopes.
C3_ScopeEnforcement ==
    (request.kind # "none" /\ request.ctx # Null /\ request.ctx[1].user # Null)
        => ( request.result.code = "next"
               <=> \/ request.requiredScopes = <<>>
                   \/ request.ctx[1].actor = Null
                   \/ Range(request.requiredScopes) \subseteq Range(request.ctx[1].scopes) )

\* C4: in every reachable state every client's stored scopes are in the scope catalog.
C4_ScopesInCatalog ==
    \A id \in 1..Len(clients) : Range(clients[id].scopes) \subseteq getAllOAuthScopes

\* C4 witness: an updateApp wrote a non-empty scope list it had normalized.
C4_Witness ==
    /\ response.op = "updateApp" /\ response.ok
    /\ clients[response.id].scopes = <<"user:read">>

\* C5: the scopes of every active grant are a subset of the registered scopes of its
\* client.
C5_GrantScopesWithinClient ==
    \A g \in 1..Len(grants) :
        grants[g].revokedAt = Null
            => Range(grants[g].scopes) \subseteq Range(clients[grants[g].serviceClientId].scopes)

\* C6: a createApp or updateApp call that returns an error writes nothing to the store.
C6_ErrorsWriteNothing ==
    [][ (response'.op \in {"createApp", "updateApp"} /\ ~response'.ok)
            => (clients' = clients /\ grants' = grants) ]_vars

\* C6 witness: updateApp of an existing client was refused for a redirect mismatch.
C6_Witness ==
    /\ response = apiErr("updateApp", "u1", 1, "ERROR",
                         <<"Redirect URIs must match the homepage domain.">>)
    /\ Len(clients) >= 1

\* The generated secrets that verify against the stored verifier of a client.
ValidSecrets(id) == { s \in 1..issued : verifySecret(s, clients[id].secretHash) }
\* The same in the state a step leads to.
ValidSecretsAfter(id) == { s \in 1..issued' : verifySecret(s, clients'[id].secretHash) }

C8_UpdateErrorKinds ==
    [][ (response'.op = "updateApp" /\ calls' = calls) =>
          LET id == response'.id
          IN IF id \notin 1..Len(clients) \/ clients[id].revokedAt # Null
             THEN response'.error = "NOT_FOUND"
             ELSE clients[id].createdByUserId # response'.caller
                      => response'.error = "NO_PERMISSION" ]_vars

C10_NoGrantOfRevokedClientListed ==
    (response.op = "getOwnedOAuthGrants" /\ response.ok)
        => \A i \in 1..Len(response.data[1]) :
              clients[response.data[1][i].serviceClientId].revokedAt = Null

\* A step that handles a request over the REST endpoint with a token as credential.
RestTokenRequestStep ==
    /\ request' # request
    /\ request'.kind = "rest"
    /\ request'.credential # Null

\* C11: once revokeApp has set a client's revokedAt it stays set, and every request
\* that then presents a well-signed, unexpired token whose actor is that client is
\* refused: it gets no authenticated context and no handler runs.
C11_RevokedClientTokensRefused ==
    [][ /\ \A id \in 1..Len(clients) :
              clients[id].revokedAt # Null
                  => (id \in 1..Len(clients') /\ clients'[id].revokedAt # Null)
        /\ RestTokenRequestStep
              => LET token == request'.credential[1]
                 IN ( /\ token.sig = "valid" /\ now < token.exp
                      /\ token.actor \in 1..Len(clients)
                      /\ clients[token.actor].revokedAt # Null )
                        => /\ request'.ctx = Null
                           /\ request'.result.code = "UNAUTHORIZED" ]_vars

\* C11 witness: a request with a well-signed, unexpired token was refused because
\* its actor client is revoked.
C11_Witness ==
    /\ request.kind = "rest" /\ request.error = "Revoked"
    /\ request.credential[1].sig = "valid" /\ now < request.credential[1].exp
    /\ clients[request.credential[1].actor].revokedAt # Null
    /\ request.result.code = "UNAUTHORIZED"

\* C12: a request whose context has no user is answered UNAUTHORIZED by every
\* protected procedure, whatever its required scopes, and the handler does not run.
C12_AnonymousUnauthorized ==
    ( /\ request.kind # "none" /\ request.procedure = "protected"
      /\ request.ctx # Null /\ request.ctx[1].user = Null )
        => request.result = [code |-> "UNAUTHORIZED", ctx |-> Null]

\* C12 witness: a REST request without credential to a procedure that requires scopes.
C12_Witness ==
    /\ request.kind = "rest" /\ request.procedure = "protected"
    /\ request.credential = Null
    /\ request.requiredScopes = <<"user:read", "timelapse:write">>
    /\ request.result.code = "UNAUTHORIZED"

\* C13: a REST request with a valid token (well-signed, unexpired, actor client
\* present and not revoked) whose scopes include every required scope passes the
\* middleware, and the handler gets ctx.user = the token's subject.
C13_ValidTokenReachesHandler ==
    [][ (RestTokenRequestStep /\ request'.procedure = "protected")
          => LET token == request'.credential[1]
             IN ( /\ token.sig = "valid" /\ now < token.exp
                  /\ token.actor \in 1..Len(clients)
                  /\ clients[token.actor].revokedAt = Null
                  /\ Range(request'.requiredScopes) \subseteq Range(token.scopes) )
                    => /\ request'.result.code = "next"
                       /\ request'.result.ctx # Null
                       /\ request'.result.ctx[1].user = Some(token.sub) ]_vars

\* C13 witness: a token with two scopes passed a procedure that requires both.
C13_Witness ==
    /\ request.kind = "rest" /\ request.procedure = "protected"
    /\ request.credential # Null
    /\ request.requiredScopes = <<"user:read", "timelapse:write">>
    /\ request.result.code = "next"
    /\ request.result.ctx[1].user = Some(request.credential[1].sub)

\* C14: a delegated context with a non-empty scope list is answered FORBIDDEN by a
\* protected procedure that requires a scope the context lacks; the handler does
\* not run.
C14_MissingScopeForbidden ==
    ( /\ request.kind # "none" /\ request.procedure = "protected"
      /\ request.ctx # Null /\ request.ctx[1].user # Null
      /\ request.ctx[1].actor # Null /\ request.ctx[1].scopes # <<>>
      /\ ~(Range(request.requiredScopes) \subseteq Range(request.ctx[1].scopes)) )
        => request.result = [code |-> "FORBIDDEN", ctx |-> Null]

\* C14 witness: scopes [timelapse:read], required timelapse:write.
C14_Witness ==
    /\ request.kind = "rest" /\ request.ctx # Null
    /\ request.ctx[1].scopes = <<"timelapse:read">>
    /\ request.requiredScopes = <<"timelapse:write">>
    /\ request.result.code = "FORBIDDEN"

\* C15: a REST request whose token fails verification (bad signature, expired, or
\* actor client absent or revoked) gets no context at all, not the anonymous one,
\* and is answered with an authentication error by protected and public procedures.
C15_FailedTokenNotAnonymous ==
    [][ RestTokenRequestStep
          => LET token == request'.credential[1]
             IN ( \/ token.sig # "valid"
                  \/ ~(now < token.exp)
                  \/ token.actor \notin 1..Len(clients)
                  \/ clients[token.actor].revokedAt # Null )
                    => /\ request'.ctx = Null
                       /\ request'.result = [code |-> "UNAUTHORIZED", ctx |-> Null] ]_vars

\* C15 witness: a public procedure refused a request that presented an expired token.
C15_Witness ==
    /\ request.kind = "rest" /\ request.procedure = "public"
    /\ request.error = "Expired"
    /\ request.ctx = Null /\ request.result.code = "UNAUTHORIZED"

\* C16: a public procedure runs its handler with the request's context for every
\* context, the anonymous one included.
C16_PublicRunsHandler ==
    ( /\ request.kind # "none" /\ request.procedure = "public" /\ request.ctx # Null )
        => request.result = [code |-> "next", ctx |-> request.ctx]

\* C16 witness: a public procedure served the anonymous context.
C16_Witness ==
    /\ request.kind = "rest" /\ request.procedure = "public"
    /\ request.ctx = Some([user |-> Null, scopes |-> <<>>, actor |-> Null])
    /\ request.result.code = "next"

\* C17: revokeOAuthGrant fails with NOT_FOUND exactly when no grant has the id, and
\* with NO_PERMISSION exactly when the grant belongs to another user; a failing call
\* and the read of a call that goes on change no grant; the write of a call that
\* goes on sets revokedAt of that grant and changes nothing else in the table.
C17_RevokeGrantOutcome ==
    [][ /\ (response'.op = "revokeOAuthGrant" /\ ~response'.ok)
              => /\ grants' = grants
                 /\ response'.error \in {"NOT_FOUND", "NO_PERMISSION"}
                 /\ response'.error = "NOT_FOUND" <=> response'.id \notin 1..Len(grants)
                 /\ response'.error = "NO_PERMISSION"
                        <=> ( /\ response'.id \in 1..Len(grants)
                              /\ grants[response'.id].userId # response'.caller )
        /\ \A p \in Slots :
              (calls[p] = Idle /\ calls'[p].op = "revokeOAuthGrant")
                  => /\ grants' = grants
                     /\ calls'[p].id \in 1..Len(grants)
                     /\ grants[calls'[p].id].userId = calls'[p].caller
        /\ \A p \in Slots :
              (calls[p].op = "revokeOAuthGrant" /\ calls'[p] = Idle)
                  => /\ response'.ok
                     /\ grants'[calls[p].id].revokedAt # Null
                     /\ grants' = [grants EXCEPT ![calls[p].id].revokedAt =
                                      grants'[calls[p].id].revokedAt] ]_vars

\* C17 witness: a grant was revoked while another user's grant was active.
C17_Witness ==
    /\ response.op = "revokeOAuthGrant" /\ response.ok
    /\ \E g \in 1..Len(grants) :
          /\ g # response.id /\ grants[g].revokedAt = Null
          /\ grants[g].userId # response.caller

\* The fields of an app that a response may carry.
PublicAppFields ==
    {"id", "name", "homepageUrl", "redirectUris", "scopes", "trustLevel", "createdBy"}

\* C18: a successful createApp or rotateAppSecret returns a generated secret; the
\* apps in the responses of getAllOwnedApps, getAllApps and updateApp have none but
\* the public fields (no secret, no verifier), updateAppTrustLevel returns a trust
\* level, and an error result has no data and a message made of a text and, for
\* unknown scopes, the scope names that were refused.
C18_SecretOnlyAtIssuance ==
    /\ (response.op \in {"createApp", "rotateAppSecret"} /\ response.ok)
          => (response.data # Null /\ response.data[1] \in 1..issued)
    /\ (response.op \in {"getAllOwnedApps", "getAllApps"} /\ response.ok)
          => \A i \in 1..Len(response.data[1]) :
                DOMAIN response.data[1][i] \subseteq PublicAppFields
    /\ (response.op = "updateApp" /\ response.ok)
          => DOMAIN response.data[1] \subseteq PublicAppFields
    /\ (response.op = "updateAppTrustLevel" /\ response.ok)
          => response.data[1] \in OAuthTrustLevels
    /\ ~response.ok
          => /\ response.data = Null
             /\ response.message[1] \in
                   { "App not found", "Grant not found", "Unknown scopes",
                     "Redirect URIs must match the homepage domain.",
                     "You do not have permission to revoke this grant." }
             /\ Len(response.message) > 1
                   => /\ Len(response.message) = 2 /\ response.message[1] = "Unknown scopes"
                      /\ Range(response.message[2]) \cap getAllOAuthScopes = {}

\* C18 witness: a listing returned an app whose secret had been rotated.
C18_Witness ==
    /\ response.op = "getAllOwnedApps" /\ response.ok
    /\ Len(response.data[1]) > 0
    /\ issued > 1

\* The entries of a scope list that, trimmed, are non-empty and outside the catalog.
UnknownOf(scopes) ==
    ({ trim(scopes[k]) : k \in 1..Len(scopes) } \ {""}) \ getAllOAuthScopes

\* The position at which an entry is first seen in a scope list.
FirstSeen(scopes, x) ==
    CHOOSE k \in 1..Len(scopes) :
        trim(scopes[k]) = x /\ \A m \in 1..(k - 1) : trim(scopes[m]) # x

\* The error names every unknown entry of the list, each once, in first-seen order.
NamesEveryUnknown(r, scopes) ==
    /\ ~r.ok /\ Len(r.message) = 2 /\ r.message[1] = "Unknown scopes"
    /\ LET named == r.message[2]
       IN /\ Range(named) = UnknownOf(scopes)
          /\ \A i, j \in 1..Len(named) :
                i < j => /\ named[i] # named[j]
                         /\ FirstSeen(scopes, named[i]) < FirstSeen(scopes, named[j])

\* C19: a createApp call, and an updateApp call on a client the caller owns, whose
\* scope list has entries outside the catalog returns an error that names every
\* unknown entry of the normalized list, each once, in first-seen order.
C19_AllUnknownScopesNamed ==
    [][ /\ \A input \in LeanCreateInputs :
              UnknownOf(input.scopes) # {}
                  => \A caller \in Users :
                        createApp(caller, input)
                            => (response'.op = "createApp"
                                  /\ NamesEveryUnknown(response', input.scopes))
        /\ \A input \in ScopeUpdateInputs :
              (input.scopes # Null /\ UnknownOf(input.scopes[1]) # {})
                  => \A caller \in Users, id \in ClientIds :
                        findOwnedActive(id, caller) # Null
                            => \A p \in Slots :
                                  updateApp_find(p, caller, id, input)
                                      => (response'.op = "updateApp"
                                            /\ NamesEveryUnknown(response', input.scopes[1]))
      ]_vars

\* C19 witness: updateApp refused a list with two unknown scopes and named both.
C19_Witness ==
    response = apiErr("updateApp", "u1", 1, "ERROR",
                      <<"Unknown scopes", <<"root", "admin:all">>>>)

\* C20: the error with which createApp or updateApp rejects redirect URIs on another
\* host than the homepage carries the list of the offending URIs.
C20_MismatchErrorListsUris ==
    ( /\ response.op \in {"createApp", "updateApp"} /\ ~response.ok
      /\ response.message[1] = "Redirect URIs must match the homepage domain." )
        => /\ Len(response.message) = 2
           /\ response.message[2] # <<>>

\* Some redirect URI of the merged state (the input's fields where supplied, the
\* stored ones otherwise) is on another host than the merged homepage.
MergedMismatch(id, input) ==
    LET home == IF input.homepageUrl # Null THEN input.homepageUrl[1]
                ELSE clients[id].homepageUrl
        uris == IF input.redirectUris # Null THEN input.redirectUris[1]
                ELSE clients[id].redirectUris
    IN \E i \in 1..Len(uris) : uris[i].hostname # home.hostname

\* C21: an updateApp call on a client the caller owns that supplies redirectUris,
\* homepageUrl or both (and no scopes) is rejected with the redirect error iff some
\* redirect URI of the merged state has another host than the merged homepage;
\* otherwise it goes on to its write.
C21_MergedRedirectCheck ==
    [][ \A input \in UrlUpdateInputs, caller \in Users, id \in ClientIds :
          findOwnedActive(id, caller) # Null
              => \A p \in Slots :
                    updateApp_find(p, caller, id, input)
                        => IF MergedMismatch(id, input)
                           THEN /\ response' = apiErr("updateApp", caller, id, "ERROR",
                                       <<"Redirect URIs must match the homepage domain.">>)
                                /\ calls' = calls
                           ELSE /\ response' = NoResponse
                                /\ calls'[p].op = "updateApp" ]_vars

\* C21 witness: after an update moved the homepage and the redirect URIs to another
\* host together, an update for the old host was rejected.
C21_Witness ==
    /\ response = apiErr("updateApp", "u1", 1, "ERROR",
                         <<"Redirect URIs must match the homepage domain.">>)
    /\ clients[1].homepageUrl = HomeB
    /\ clients[1].redirectUris = <<CbB>>

\* The ids of the apps a listing returned.
ListedIds(r) == { r.data[1][i].id : i \in 1..Len(r.data[1]) }

\* C22: getAllOwnedApps returns exactly the clients the caller created whose
\* revokedAt is null, getAllApps exactly the clients whose revokedAt is null, each
\* once and as stored; a revokedAt that is set stays set, so a revoked client is in
\* no later listing.
C22_ListingsExact ==
    /\ []( /\ (response.op = "getAllOwnedApps" /\ response.ok)
              => /\ ListedIds(response) =
                       { id \in 1..Len(clients) :
                           /\ clients[id].createdByUserId = response.caller
                           /\ clients[id].revokedAt = Null }
                 /\ Cardinality(ListedIds(response)) = Len(response.data[1])
           /\ (response.op = "getAllApps" /\ response.ok)
              => /\ ListedIds(response) =
                       { id \in 1..Len(clients) : clients[id].revokedAt = Null }
                 /\ Cardinality(ListedIds(response)) = Len(response.data[1])
           /\ (response.op \in {"getAllOwnedApps", "getAllApps"} /\ response.ok)
              => \A i \in 1..Len(response.data[1]) :
                    LET app == response.data[1][i]
                    IN /\ app.name = clients[app.id].name
                       /\ app.createdBy = clients[app.id].createdByUserId )
    /\ [][ \A id \in 1..Len(clients) :
              clients[id].revokedAt # Null
                  => (id \in 1..Len(clients') /\ clients'[id].revokedAt # Null) ]_vars

\* C22 witness: the owner's listing is empty after the owner's only app was revoked.
C22_Witness ==
    /\ response.op = "getAllOwnedApps" /\ response.ok
    /\ response.data[1] = <<>>
    /\ \E id \in 1..Len(clients) :
          clients[id].createdByUserId = response.caller /\ clients[id].revokedAt # Null

\* C23: the trustLevel of a client changes only in the step that completes an
\* updateAppTrustLevel call for it, to the level of that call; a client that
\* createApp inserts is UNTRUSTED whatever the input; no step of updateApp,
\* rotateAppSecret or revokeApp changes a trustLevel.
C23_TrustLevelOnlyByAdmin ==
    [][ /\ \A id \in 1..Len(clients) :
              clients'[id].trustLevel # clients[id].trustLevel
                  => \E p \in Slots :
                        /\ calls[p].op = "updateAppTrustLevel"
                        /\ calls[p].id = id
                        /\ calls'[p] = Idle
                        /\ clients'[id].trustLevel = calls[p].trustLevel
        /\ Len(clients') > Len(clients)
              => clients'[Len(clients')].trustLevel = "UNTRUSTED"
        /\ (\E p \in Slots : calls[p].op \in {"updateApp", "rotateAppSecret", "revokeApp"}
                                /\ calls'[p] = Idle)
              => \A id \in 1..Len(clients) : clients'[id].trustLevel = clients[id].trustLevel ]_vars

\* C23 witness: the owner's updateApp returns a TRUSTED app, after an admin
\* raised its trust level.
C23_Witness ==
    /\ response.op = "updateApp" /\ response.ok
    /\ response.caller = clients[response.id].createdByUserId
    /\ response.data[1].trustLevel = "TRUSTED"
    /\ clients[response.id].trustLevel = "TRUSTED"

\* The handlers that look the client up with revokedAt: null.
OwnerOps == {"revokeApp", "updateApp", "rotateAppSecret"}

\* C24: when no call is in flight and a client is revoked, a revokeApp, updateApp or
\* rotateAppSecret on it answers NOT_FOUND at once, goes no further, and the row
\* stays as it is.
C24_RevokedClientNotFound ==
    [][ \A id \in 1..Len(clients) :
          (clients[id].revokedAt # Null /\ \A q \in Slots : calls[q] = Idle)
              => /\ \A p \in Slots :
                       calls'[p] # Idle => ~(calls'[p].op \in OwnerOps /\ calls'[p].id = id)
                 /\ (response'.op \in OwnerOps /\ response'.id = id)
                       => (~response'.ok /\ response'.error = "NOT_FOUND")
                 /\ clients'[id] = clients[id] ]_vars

\* C24 witness: the owner's rotateAppSecret on the owner's revoked app got NOT_FOUND.
C24_Witness ==
    /\ response.op = "rotateAppSecret" /\ ~response.ok /\ response.error = "NOT_FOUND"
    /\ response.id \in 1..Len(clients)
    /\ clients[response.id].createdByUserId = response.caller
    /\ clients[response.id].revokedAt # Null
    /\ \A q \in Slots : calls[q] = Idle

\* C25: a revokeOAuthGrant that its caller starts on a grant of theirs that is
\* already revoked is answered NOT_FOUND at once, and a revokedAt that is set is
\* never written again.
C25_RevokedGrantNotFound ==
    [][ /\ \A g \in 1..Len(grants) :
              grants[g].revokedAt # Null
                  => /\ g \in 1..Len(grants')
                     /\ grants'[g].revokedAt = grants[g].revokedAt
        /\ \A g \in 1..Len(grants), p \in Slots :
              (grants[g].revokedAt # Null /\ revokeOAuthGrant_find(p, grants[g].userId, g))
                  => /\ ~response'.ok /\ response'.error = "NOT_FOUND"
                     /\ calls' = calls ]_vars

\* C26: no step shortens the client table or the grant table, each row keeps its
\* owner (and a grant its client), and the step that completes a revokeApp or a
\* revokeOAuthGrant changes nothing of the row but revokedAt, which it sets.
C26_RowsNeverRemoved ==
    [][ /\ Len(clients') >= Len(clients)
        /\ Len(grants') >= Len(grants)
        /\ \A id \in 1..Len(clients) :
              clients'[id].createdByUserId = clients[id].createdByUserId
        /\ \A g \in 1..Len(grants) :
              /\ grants'[g].userId = grants[g].userId
              /\ grants'[g].serviceClientId = grants[g].serviceClientId
        /\ \A p \in Slots :
              (calls[p].op = "revokeApp" /\ calls'[p] = Idle)
                  => /\ clients'[calls[p].id].revokedAt # Null
                     /\ clients' = [clients EXCEPT ![calls[p].id].revokedAt =
                                        clients'[calls[p].id].revokedAt]
                     /\ grants' = grants
        /\ \A p \in Slots :
              (calls[p].op = "revokeOAuthGrant" /\ calls'[p] = Idle)
                  => /\ grants'[calls[p].id].revokedAt # Null
                     /\ grants' = [grants EXCEPT ![calls[p].id].revokedAt =
                                       grants'[calls[p].id].revokedAt]
                     /\ clients' = clients ]_vars

\* C26 witness: a revokeApp succeeded and the table still holds the revoked client,
\* next to a revoked grant.
C26_Witness ==
    /\ response.op = "revokeApp" /\ response.ok
    /\ response.id \in 1..Len(clients)
    /\ clients[response.id].revokedAt # Null
    /\ \E g \in 1..Len(grants) : grants[g].revokedAt # Null

\* The fields of a client that updateApp may write.
UpdatableFields == {"name", "homepageUrl", "redirectUris", "scopes"}

\* C27: a step that changes an updatable field of a client is the one store write of
\* an updateApp call on it: the call ends in that step and every field its data
\* supplies has the supplied value afterwards; the apps a listing returns are rows
\* as the store holds them, so a reader sees a client before the write or after it.
C27_UpdateInOneWrite ==
    /\ [][ \A id \in 1..Len(clients) :
              (\E f \in UpdatableFields : clients'[id][f] # clients[id][f])
                  => \E p \in Slots :
                        /\ calls[p].op = "updateApp" /\ calls[p].id = id
                        /\ calls'[p] = Idle
                        /\ response'.op = "updateApp" /\ response'.ok
                        /\ \A f \in UpdatableFields :
                              calls[p].data[f] # Null => clients'[id][f] = calls[p].data[f][1] ]_vars
    /\ []( (response.op \in {"getAllOwnedApps", "getAllApps"} /\ response.ok)
              => \A i \in 1..Len(response.data[1]) :
                    LET app == response.data[1][i]
                    IN \A f \in UpdatableFields : app[f] = clients[app.id][f] )

\* C27 witness: while another updateApp is in flight, a reader gets the app with all
\* four fields of a completed update.
C27_Witness ==
    /\ response.op = "getAllOwnedApps" /\ response.ok
    /\ \E i \in 1..Len(response.data[1]) :
          LET app == response.data[1][i]
          IN /\ app.name = "Renamed" /\ app.homepageUrl = HomeB
             /\ app.redirectUris = <<CbB>> /\ app.scopes = <<"user:read">>
    /\ \E p \in Slots : calls[p].op = "updateApp"

\* C30: the data that updateApp writes leaves out every field its input leaves out;
\* the write keeps the stored value of each field the data leaves out, keeps the
\* client's place in the table, createdByUserId, revokedAt, the secret verifier and
\* the trust level, and touches no other row; an updateApp that fails writes nothing.
C30_UpdateFrame ==
    [][ /\ \A input \in FieldUpdateInputs, caller \in Users, id \in ClientIds, p \in Slots :
              (calls[p] = Idle /\ calls'[p] # Idle /\ updateApp_find(p, caller, id, input))
                  => \A f \in UpdatableFields :
                        input[f] = Null => calls'[p].data[f] = Null
        /\ \A p \in Slots :
              (calls[p].op = "updateApp" /\ calls'[p] = Idle)
                  => LET id == calls[p].id
                     IN /\ Len(clients') = Len(clients)
                        /\ \A f \in UpdatableFields :
                              calls[p].data[f] = Null => clients'[id][f] = clients[id][f]
                        /\ \A f \in DOMAIN clients[id] \ UpdatableFields :
                              clients'[id][f] = clients[id][f]
                        /\ \A other \in 1..Len(clients) :
                              other # id => clients'[other] = clients[other]
        /\ (response'.op = "updateApp" /\ ~response'.ok) => clients' = clients
        /\ (\E p \in Slots : calls[p] = Idle /\ calls'[p].op = "updateApp")
              => clients' = clients ]_vars

\* C30 witness: an updateApp that brought a name only returned the app with the new
\* name and the homepage, redirect URIs and scopes it was registered with.
C30_Witness ==
    /\ response.op = "updateApp" /\ response.ok
    /\ response.data[1].name = "Renamed"
    /\ response.data[1].homepageUrl = HomeA
    /\ response.data[1].redirectUris = <<CbA>>
    /\ response.data[1].scopes = <<"user:read", "timelapse:read">>
    /\ clients[response.id].secretHash = hashSecret(response.id)

\* C28: a request over the first-party tRPC endpoint (context with actor null and
\* no scopes) that has a user passes the middleware of every protected procedure,
\* whatever scopes the procedure requires, and the handler gets that user.
C28_FirstPartyPassesEveryScope ==
    ( /\ request.kind = "trpc" /\ request.procedure = "protected"
      /\ request.ctx[1].user # Null )
        => /\ request.ctx[1].actor = Null /\ request.ctx[1].scopes = <<>>
           /\ request.result =
                 [ code |-> "next",
                   ctx |-> Some([ user |-> request.ctx[1].user, scopes |-> <<>>,
                                  actor |-> Null ]) ]

\* C28 witness: a signed-in user reached the handler of a procedure that requires
\* two scopes.
C28_Witness ==
    /\ request.kind = "trpc" /\ request.procedure = "protected"
    /\ request.ctx[1].user = Some("u1")
    /\ request.requiredScopes = <<"user:read", "timelapse:write">>
    /\ request.result.code = "next"

\* The ids of the grants a listing returned.
ListedGrantIds(r) == { r.data[1][i].id : i \in 1..Len(r.data[1]) }

\* C29: getOwnedOAuthGrants returns exactly the grants whose userId is the caller
\* and whose revokedAt is null, each once; a revokedAt that is set stays set, so a
\* grant is in no listing after its revokeOAuthGrant succeeded.
C29_GrantListingExact ==
    /\ []( (response.op = "getOwnedOAuthGrants" /\ response.ok)
              => /\ ListedGrantIds(response) =
                       { g \in 1..Len(grants) :
                           grants[g].userId = response.caller /\ grants[g].revokedAt = Null }
                 /\ Cardinality(ListedGrantIds(response)) = Len(response.data[1]) )
    /\ [][ /\ \A g \in 1..Len(grants) :
                 grants[g].revokedAt # Null
                     => (g \in 1..Len(grants') /\ grants'[g].revokedAt # Null)
           /\ \A p \in Slots :
                 (calls[p].op = "revokeOAuthGrant" /\ calls'[p] = Idle /\ response'.ok)
                     => grants'[calls[p].id].revokedAt # Null ]_vars

\* C29 witness: the listing of a user who revoked their grant is empty, while the
\* other user's grant is active.
C29_Witness ==
    /\ response.op = "getOwnedOAuthGrants" /\ response.ok
    /\ response.data[1] = <<>>
    /\ \E g \in 1..Len(grants) :
          grants[g].userId = response.caller /\ grants[g].revokedAt # Null
    /\ \E g \in 1..Len(grants) :
          grants[g].userId # response.caller /\ grants[g].revokedAt = Null

C32_RevokedStaysRevoked ==
    [][ /\ \A id \in 1..Len(clients) :
              clients[id].revokedAt # Null
                  => (id \in 1..Len(clients') /\ clients'[id].revokedAt # Null)
        /\ \A g \in 1..Len(grants) :
              grants[g].revokedAt # Null
                  => (g \in 1..Len(grants') /\ grants'[g].revokedAt # Null) ]_vars

\* C32 witness: an updateAppTrustLevel wrote the row of a revoked client, whose
\* revokedAt is still set, and a revoked grant is in the table.
C32_Witness ==
    /\ response.op = "updateAppTrustLevel" /\ response.ok
    /\ clients[response.id].revokedAt # Null
    /\ clients[response.id].trustLevel = "TRUSTED"
    /\ \E g \in 1..Len(grants) : grants[g].revokedAt # Null

\* C33: the write of a revokeApp lands only on a client that is still active, so of
\* two overlapping revokeApp calls of the owner one sets revokedAt and the other
\* is answered NOT_FOUND and writes nothing.
C33_RevokedExactlyOnce ==
    [][ \A p \in Slots :
          ( /\ calls[p].op = "revokeApp" /\ calls'[p] = Idle
            /\ clients[calls[p].id].revokedAt # Null )
              => /\ ~response'.ok /\ response'.error = "NOT_FOUND"
                 /\ clients' = clients ]_vars

\* C34: an updateAppTrustLevel on a client that is revoked when the call reads it is
\* answered NOT_FOUND at once and changes no trust level.
C34_TrustLevelOfRevokedNotFound ==
    [][ \A p \in Slots :
          ( /\ calls[p] = Idle /\ calls'[p].op = "updateAppTrustLevel"
            /\ calls'[p].id \in 1..Len(clients) )
              => clients[calls'[p].id].revokedAt = Null ]_vars

\* C35: an updateApp, rotateAppSecret or revokeApp of a user on a client that another
\* user created is answered NOT_FOUND by its read and never gets to its write; the
\* step that ends a call of a user changes no client but the one the call names, which
\* that user created.
C35_StrangersChangeNothing ==
    [][ /\ \A id \in 1..Len(clients) :
              ( /\ response' # response /\ response'.op \in OwnerOps /\ response'.id = id
                /\ clients[id].createdByUserId # response'.caller )
                  => /\ ~response'.ok /\ response'.error = "NOT_FOUND"
                     /\ clients' = clients
                     /\ calls' = calls
        /\ \A p \in Slots :
              calls'[p].op \in OwnerOps
                  => clients'[calls'[p].id].createdByUserId = calls'[p].caller
        /\ \A p \in Slots :
              (calls[p].op \in OwnerOps /\ calls'[p] = Idle)
                  => \A id \in 1..Len(clients) :
                        clients'[id] # clients[id]
                            => (id = calls[p].id /\ clients[id].createdByUserId = calls[p].caller) ]_vars

\* C35 witness: a stranger's rotateAppSecret on an active app of another user got
\* NOT_FOUND, and the app has the secret it was created with.
C35_Witness ==
    /\ response.op = "rotateAppSecret" /\ ~response.ok /\ response.error = "NOT_FOUND"
    /\ response.id \in 1..Len(clients)
    /\ clients[response.id].createdByUserId # response.caller
    /\ clients[response.id].revokedAt = Null
    /\ clients[response.id].secretHash = hashSecret(response.id)

\* Every URI of the list has the hostname of the homepage, whatever its scheme,
\* port and path.
SameHostname(homepageUrl, uris) ==
    \A i \in 1..Len(uris) : uris[i].hostname = homepageUrl.hostname

\* C36: createApp (with known scopes) succeeds iff every redirect URI has the
\* hostname of the homepage URL, and an updateApp of the owner that brings redirect
\* URIs goes on to its write iff every one of them has the hostname of the homepage
\* (the one the input brings, else the stored one); otherwise both answer the
\* redirect error.  Scheme, port and path of
\* the URIs play no part.
C36_HostnameAlone ==
    [][ /\ \A input \in HostCreateInputs, caller \in Owners :
              (response'.op = "createApp" /\ createApp(caller, input))
                  => IF SameHostname(input.homepageUrl, input.redirectUris)
                     THEN /\ response'.ok
                          /\ clients'[Len(clients')].redirectUris = input.redirectUris
                     ELSE /\ response' = apiErr("createApp", caller, 0, "ERROR",
                                    <<"Redirect URIs must match the homepage domain.">>)
                          /\ clients' = clients
        /\ \A input \in HostUpdateInputs, caller \in Owners, id \in 1..Len(clients), p \in Slots :
              ( /\ clients[id].revokedAt = Null
                /\ response'.op = "updateApp" \/ calls'[p].op = "updateApp"
                /\ calls[p] = Idle
                /\ updateApp_find(p, caller, id, input) )
                  => IF SameHostname(IF input.homepageUrl = Null THEN clients[id].homepageUrl
                                     ELSE input.homepageUrl[1], input.redirectUris[1])
                     THEN /\ response' = NoResponse
                          /\ calls'[p].data.redirectUris = input.redirectUris
                     ELSE /\ response' = apiErr("updateApp", caller, id, "ERROR",
                                    <<"Redirect URIs must match the homepage domain.">>)
                          /\ calls' = calls ]_vars

\* C36 witness: an update stored a redirect URI with http, port 8080 and another
\* path for an app whose homepage is https on the default port.
C36_Witness ==
    /\ response.op = "updateApp" /\ response.ok
    /\ clients[response.id].homepageUrl = HomeA
    /\ clients[response.id].redirectUris = <<CbA, CbAPort>>

\* A step in which revokeOAuthGrant answers a caller about a grant id that is not
\* a grant of theirs.
NonOwnerRevokeGrantStep ==
    /\ response' # response
    /\ response'.op = "revokeOAuthGrant"
    /\ response'.id \in 1..Len(grants) => grants[response'.id].userId # response'.caller

\* C37 as stated: the answer to a caller who does not own the grant is the same
\* whether the id is a grant of another user or of nobody, that is, the NOT_FOUND
\* an absent id gets.
C37_NonOwnerResultHidesExistence ==
    [][ NonOwnerRevokeGrantStep
          => /\ ~response'.ok
             /\ response'.error = "NOT_FOUND" ]_vars

\* C37 amended: the answer to a caller who does not own the grant tells whether the
\* id exists: NO_PERMISSION for a grant of another user, revoked or not, NOT_FOUND
\* for an id no grant has; either way the call ends there.
C37_NonOwnerResultTellsExistence ==
    [][ NonOwnerRevokeGrantStep
          => /\ ~response'.ok
             /\ response'.error =
                   IF response'.id \in 1..Len(grants) THEN "NO_PERMISSION" ELSE "NOT_FOUND"
             /\ response'.data = Null
             /\ calls' = calls ]_vars

\* C37 witness: a user was answered NO_PERMISSION for the active grant of another
\* user, on a table in which the next id is free.
C37_Witness ==
    /\ response.op = "revokeOAuthGrant" /\ response.error = "NO_PERMISSION"
    /\ response.id \in 1..Len(grants)
    /\ grants[response.id].userId # response.caller
    /\ grants[response.id].revokedAt = Null

\* C38: when the middleware of a protected procedure lets a request through, the
\* context of the request has a user, and the handler gets that user, the scopes and
\* the actor of that context, the scopes neither more nor fewer.
C38_HandlerGetsContextAsBuilt ==
    ( /\ request.kind # "none" /\ request.procedure = "protected"
      /\ request.result.code = "next" )
        => /\ request.ctx # Null
           /\ request.ctx[1].user # Null
           /\ request.result.ctx =
                 Some([ user |-> request.ctx[1].user, scopes |-> request.ctx[1].scopes,
                        actor |-> request.ctx[1].actor ])

\* C38 witness: a token with two scopes reached the handler of a procedure that
\* requires one of them, and the handler has both scopes and the actor.
C38_Witness ==
    /\ request.kind = "rest" /\ request.procedure = "protected"
    /\ request.requiredScopes = <<"user:read">>
    /\ request.result.code = "next"
    /\ request.result.ctx[1].scopes = <<"timelapse:write", "user:read">>
    /\ request.result.ctx[1].actor # Null

\* The ids of the comments in the table.
StoredComments == { i \in 1..Len(comments) : comments[i] # Null }

\* C39: a step that takes a comment out of the table ends a comment.delete of its
\* author and takes out that comment alone; a comment.delete is answered NOT_FOUND
\* by its read iff no comment has the id, NO_PERMISSION iff the comment has
\* another author, and a call that fails leaves the table as it is.
C39_DeleteOnlyByAuthor ==
    [][ /\ \A i \in StoredComments :
              (i \notin 1..Len(comments') \/ comments'[i] # comments[i])
                  => \E p \in Slots :
                        /\ calls[p].op = "comment.delete" /\ calls'[p] = Idle
                        /\ calls[p].id = i
                        /\ calls[p].caller = comments[i][1].authorId
                        /\ response'.ok
                        /\ comments' = [comments EXCEPT ![i] = Null]
        /\ (response' # response /\ response'.op = "comment.delete" /\ ~response'.ok)
              => comments' = comments
        /\ (response' # response /\ response'.op = "comment.delete" /\ calls' = calls)
              => /\ ~response'.ok
                 /\ response'.error \in {"NOT_FOUND", "NO_PERMISSION"}
                 /\ response'.error = "NOT_FOUND" <=> response'.id \notin StoredComments
                 /\ response'.error = "NO_PERMISSION"
                       <=> ( /\ response'.id \in StoredComments
                             /\ comments[response'.id][1].authorId # response'.caller ) ]_vars

\* C39 witness: a user was refused the delete of another user's comment, which is
\* still in the table, after a comment was deleted by its author.
C39_Witness ==
    /\ response.op = "comment.delete" /\ response.error = "NO_PERMISSION"
    /\ response.id \in StoredComments
    /\ comments[response.id][1].authorId # response.caller
    /\ \E i \in 1..Len(comments) : comments[i] = Null

====
